---- MODULE Spec2Model ----
(***************************************************************************)
(* Sitemap monitor: snapshot store, per-source attempt (downloadSitemap),  *)
(* feed registry (addFeed / removeFeed) and the monitoring passes.         *)
(*                                                                         *)
(* Strings of the program are kept as strings where they are only compared *)
(* (keys, messages, source URLs).  A document body is a sequence of markup *)
(* elements, each with a tag and a text; a text is a sequence of chunks    *)
(* (whitespace, scheme, rest), so that the regex scan, trim() and          *)
(* startsWith() of the extractor are computed, not assumed.  The empty     *)
(* string is the empty sequence.  A key-value read gives Null (<<>>) for a *)
(* missing key and <<v>> for a stored value v.  Calendar days YYYYMMDD are *)
(* the integers 1..MaxDay.                                                 *)
(***************************************************************************)
EXTENDS Integers, Sequences, FiniteSets, Bags, TLC

VARIABLES
  kv,      \* the key-value namespace: key -> Null or <<value>>
  day,     \* the current UTC calendar day
  pass,    \* the monitoring pass in progress, or Idle
  last,    \* the last handler step: what was called and what it returned
  stores,  \* per domain: documents fetched and stored today, forced or not
  procs,   \* the bag of handler invocations in flight, each at an await
  reported, \* <<source, url>>: reported as new by a scheduled pass, and in
            \* every document fetched for the source since
  seen      \* per source: the document last fetched and stored for it

vars == <<kv, day, pass, last, stores, procs, reported, seen>>

\* ------------------------------------------------------------------ bounds
MaxDay == 2
MaxStores == 2
MaxProcs == 2
MaxLen == 2

\* ------------------------------------------------------------ vocabulary
Null == <<>>

SrcA == "https://a.com/sitemap.xml"
SrcA2 == "https://a.com/sitemap-news.xml.gz"
SrcB == "https://b.com/sitemap.xml"
SrcBad == "sitemap"

Sources == {SrcA, SrcA2, SrcB, SrcBad}

Domains == {"a.com", "b.com"}

Days == 1..MaxDay

\* new URL(url) throws a TypeError on a string that is not an absolute URL
ValidURL(url) == url \in {SrcA, SrcA2, SrcB}

hostname(url) ==
  CASE url = SrcA -> "a.com"
    [] url = SrcA2 -> "a.com"
    [] url = SrcB -> "b.com"

endsWithGz(url) == url = SrcA2

\* today = new Date().toISOString().split("T")[0].replace(/-/g, "")
Today == day

feedsKey == <<"rss_feeds">>
lastUpdateKey(domain) == <<"last_update", domain>>
currentKey(domain) == <<"sitemap_current", domain>>
latestKey(domain) == <<"sitemap_latest", domain>>
\* mutant of datedKey: the day is left out of the key
datedKey_NoDay(domain, d) == <<"sitemap_dated", domain, 1>>

datedKey(domain, d) == <<"sitemap_dated", domain, d>>

Keys ==
  {feedsKey}
    \cup {lastUpdateKey(d) : d \in Domains}
    \cup {currentKey(d) : d \in Domains}
    \cup {latestKey(d) : d \in Domains}
    \cup {datedKey(d, t) : d \in Domains, t \in Days}

\* -------------------------------------------------------------- documents
WS == " "
Loc(tag, text) == [tag |-> tag, text |-> text]

U1 == <<"https://", "a.com/tech-news/">>
U2 == <<"http://", "a.com/ai/">>
U3 == <<"ftp://", "a.com/file">>

EmptyBody == <<>>
Body1 == <<Loc("loc", U1)>>
Body2 ==
  <<Loc("loc", U1), Loc("LOC", <<WS>> \o U2 \o <<WS>>), Loc("lastmod", U1),
    Loc("loc", U3), Loc("loc", U2)>>

Bodies == {EmptyBody, Body1, Body2}

toLowerCase(tag) == IF tag = "LOC" THEN "loc" ELSE tag

RECURSIVE trimStart(_)
trimStart(text) ==
  IF text # <<>> /\ Head(text) = WS THEN trimStart(Tail(text)) ELSE text

RECURSIVE trimEnd(_)
trimEnd(text) ==
  IF text # <<>> /\ text[Len(text)] = WS
  THEN trimEnd(SubSeq(text, 1, Len(text) - 1))
  ELSE text

trim(text) == trimEnd(trimStart(text))

startsWith(text, prefix) == text # <<>> /\ Head(text) = prefix

\* /<loc[^>]*>(.*?)<\/loc>/gi, then trim and the http(s) prefix test
extractURLs(xmlContent) ==
  LET matches == SelectSeq(xmlContent, LAMBDA e : toLowerCase(e.tag) = "loc")
      urls == [i \in 1..Len(matches) |-> trim(matches[i].text)]
  IN SelectSeq(urls, LAMBDA url :
       url # <<>> /\ (startsWith(url, "http://") \/ startsWith(url, "https://")))

\* mutant of includes: no element is ever found
includes_Never(seq, x) == FALSE

includes(seq, x) == \E i \in 1..Len(seq) : seq[i] = x

\* mutant of compareSitemaps: a new URL is reported once however often it occurs
compareSitemaps_Dedup(currentContent, oldContent) ==
  LET currentUrls == extractURLs(currentContent)
      oldUrls == extractURLs(oldContent)
      first == SelectSeq([i \in 1..Len(currentUrls) |-> <<i, currentUrls[i]>>],
                 LAMBDA e : \A j \in 1..(e[1] - 1) : currentUrls[j] # e[2])
      uniqueUrls == [k \in 1..Len(first) |-> first[k][2]]
  IN SelectSeq(uniqueUrls, LAMBDA url : ~includes(oldUrls, url))

\* mutant of compareSitemaps: the two documents are taken the other way round
compareSitemaps_Swapped(currentContent, oldContent) ==
  LET currentUrls == extractURLs(currentContent)
      oldUrls == extractURLs(oldContent)
  IN SelectSeq(oldUrls, LAMBDA url : ~includes(currentUrls, url))

\* currentUrls.filter((url) => !oldUrls.includes(url))
compareSitemaps(currentContent, oldContent) ==
  LET currentUrls == extractURLs(currentContent)
      oldUrls == extractURLs(oldContent)
  IN SelectSeq(currentUrls, LAMBDA url : ~includes(oldUrls, url))

\* JavaScript truthiness of a string | null read from the store
Truthy(v) == v # Null /\ v[1] # EmptyBody

\* ---------------------------------------------------------- environment
\* A key-value operation named in `faults` throws when the handler reaches it.
KVOps ==
  {"get_last_update", "get_current", "get_latest", "put_latest",
   "put_current", "put_dated", "put_last_update", "get_feeds", "put_feeds"}

FaultSets == {{}} \cup {{f} : f \in KVOps}

\* What fetch(url) gives: a network failure, a non-2xx response, a 2xx
\* response without a body stream, or a 2xx response carrying a document.
NetworkError == [net |-> FALSE, ok |-> FALSE, hasBody |-> FALSE, text |-> EmptyBody]
HttpError == [net |-> TRUE, ok |-> FALSE, hasBody |-> TRUE, text |-> EmptyBody]
NoBody == [net |-> TRUE, ok |-> TRUE, hasBody |-> FALSE, text |-> EmptyBody]
Ok(body) == [net |-> TRUE, ok |-> TRUE, hasBody |-> TRUE, text |-> body]

Responses == {NetworkError, HttpError, NoBody} \cup {Ok(b) : b \in Bodies}

\* ----------------------------------------------------- per-source attempt
MsgNotSent == "already updated today, not sent"
MsgUpdated == "already updated today"
MsgDownloadFailed == "download failed: "
MsgAdded == "added"
MsgExisting == "existing feed updated"
MsgNotFound == "feed not found"
MsgAddFailed == "add failed: "
MsgRemoveFailed == "remove failed: "

DownloadResult(success, errorMsg, datedFile, newUrls) ==
  [success |-> success, errorMsg |-> errorMsg, datedFile |-> datedFile,
   newUrls |-> newUrls]

\* No value returned: an exception is in flight
Unset == [unset |-> TRUE]

\* The effect of running a piece of the handler: the store it leaves, the
\* value returned (Unset while an exception is in flight), the message of the
\* exception raised ("" when none), whether fetch() was called, the keys
\* written in order, the branch taken and the text obtained from the fetch.
Effect(store, out, exc, fetched, writes, branch, text) ==
  [store |-> store, out |-> out, exc |-> exc, fetched |-> fetched,
   writes |-> writes, branch |-> branch, text |-> text]

put(store, key, value) == [store EXCEPT ![key] = <<value>>]

\* mutants of ThrottleHit: the force flag inverted; the marker compared with
\* a day in another format, which never matches
ThrottleHit_ForceInverted(forceDownload, lastUpdate, today) ==
  forceDownload /\ lastUpdate = <<today>>

ThrottleHit_WrongFormat(forceDownload, lastUpdate, today) ==
  ~forceDownload /\ lastUpdate = <<0 - today>>

\* if (!forceDownload && lastUpdate === today)
ThrottleHit(forceDownload, lastUpdate, today) ==
  ~forceDownload /\ lastUpdate = <<today>>

\* mutant of ThrottleBranch: the throttle branch rotates current into latest
ThrottleBranch_Rotate(store, domain, faults) ==
  IF "get_current" \in faults
  THEN Effect(store, Unset, "KV get failed", FALSE, <<>>, "throttle", EmptyBody)
  ELSE IF "get_latest" \in faults
  THEN Effect(store, Unset, "KV get failed", FALSE, <<>>, "throttle", EmptyBody)
  ELSE
    LET currentContent == store[currentKey(domain)]
        latestContent == store[latestKey(domain)]
    IN IF Truthy(currentContent) /\ Truthy(latestContent)
       THEN Effect(put(store, latestKey(domain), currentContent[1]),
                   DownloadResult(TRUE, MsgNotSent, Null,
                     compareSitemaps(currentContent[1], latestContent[1])),
                   "", FALSE, <<latestKey(domain)>>, "throttle", EmptyBody)
       ELSE Effect(store, DownloadResult(TRUE, MsgUpdated, Null, <<>>),
                   "", FALSE, <<>>, "throttle", EmptyBody)

\* mutant of ThrottleBranch: the two files compared the wrong way round
ThrottleBranch_Swapped(store, domain, faults) ==
  IF "get_current" \in faults
  THEN Effect(store, Unset, "KV get failed", FALSE, <<>>, "throttle", EmptyBody)
  ELSE IF "get_latest" \in faults
  THEN Effect(store, Unset, "KV get failed", FALSE, <<>>, "throttle", EmptyBody)
  ELSE
    LET currentContent == store[currentKey(domain)]
        latestContent == store[latestKey(domain)]
    IN IF Truthy(currentContent) /\ Truthy(latestContent)
       THEN Effect(store,
                   DownloadResult(TRUE, MsgNotSent, Null,
                     compareSitemaps(latestContent[1], currentContent[1])),
                   "", FALSE, <<>>, "throttle", EmptyBody)
       ELSE Effect(store, DownloadResult(TRUE, MsgUpdated, Null, <<>>),
                   "", FALSE, <<>>, "throttle", EmptyBody)

\* lines 73-91: compare the stored files, no fetch
ThrottleBranch(store, domain, faults) ==
  IF "get_current" \in faults
  THEN Effect(store, Unset, "KV get failed", FALSE, <<>>, "throttle", EmptyBody)
  ELSE IF "get_latest" \in faults
  THEN Effect(store, Unset, "KV get failed", FALSE, <<>>, "throttle", EmptyBody)
  ELSE
    LET currentContent == store[currentKey(domain)]
        latestContent == store[latestKey(domain)]
    IN IF Truthy(currentContent) /\ Truthy(latestContent)
       THEN Effect(store,
                   DownloadResult(TRUE, MsgNotSent, Null,
                     compareSitemaps(currentContent[1], latestContent[1])),
                   "", FALSE, <<>>, "throttle", EmptyBody)
       ELSE Effect(store, DownloadResult(TRUE, MsgUpdated, Null, <<>>),
                   "", FALSE, <<>>, "throttle", EmptyBody)

\* lines 100-122: "" when the document was obtained, else the error thrown
FetchError(url, resp) ==
  IF ~resp.net THEN "fetch failed"
  ELSE IF ~resp.ok THEN "HTTP 404: Not Found"
  ELSE IF endsWithGz(url) /\ ~resp.hasBody
  THEN "Response body is null, cannot decompress."
  ELSE ""

\* mutant of DiffAgainst: with no current file every URL counts as new
DiffAgainst_AllNew(newContent, currentContent) ==
  IF Truthy(currentContent)
  THEN compareSitemaps(newContent, currentContent[1])
  ELSE extractURLs(newContent)

\* lines 124-129: the new URLs against the stored current file, if any
DiffAgainst(newContent, currentContent) ==
  IF Truthy(currentContent)
  THEN compareSitemaps(newContent, currentContent[1])
  ELSE <<>>

\* mutant of SaveSnapshot: the key returned is the one of the current slot
SaveSnapshot_NamesCurrent(store, today, domain, newContent, faults) ==
  IF "get_current" \in faults
  THEN Effect(store, Unset, "KV get failed", TRUE, <<>>, "fetch", newContent)
  ELSE
    LET currentContent == store[currentKey(domain)]
        hasCurrent == Truthy(currentContent)
        newUrls == DiffAgainst(newContent, currentContent)
        s1 == IF hasCurrent
              THEN put(store, latestKey(domain), currentContent[1])
              ELSE store
        w1 == IF hasCurrent THEN <<latestKey(domain)>> ELSE <<>>
        s2 == put(s1, currentKey(domain), newContent)
        w2 == Append(w1, currentKey(domain))
        s3 == put(s2, datedKey(domain, today), newContent)
        w3 == Append(w2, datedKey(domain, today))
        s4 == put(s3, lastUpdateKey(domain), today)
        w4 == Append(w3, lastUpdateKey(domain))
    IN IF hasCurrent /\ "put_latest" \in faults
       THEN Effect(store, Unset, "KV put failed", TRUE, <<>>, "fetch", newContent)
       ELSE IF "put_current" \in faults
       THEN Effect(s1, Unset, "KV put failed", TRUE, w1, "fetch", newContent)
       ELSE IF "put_dated" \in faults
       THEN Effect(s2, Unset, "KV put failed", TRUE, w2, "fetch", newContent)
       ELSE IF "put_last_update" \in faults
       THEN Effect(s3, Unset, "KV put failed", TRUE, w3, "fetch", newContent)
       ELSE Effect(s4,
                   DownloadResult(TRUE, "", <<currentKey(domain)>>, newUrls),
                   "", TRUE, w4, "fetch", newContent)

\* lines 124-147: compare with current, rotate, save, mark
SaveSnapshot(store, today, domain, newContent, faults) ==
  IF "get_current" \in faults
  THEN Effect(store, Unset, "KV get failed", TRUE, <<>>, "fetch", newContent)
  ELSE
    LET currentContent == store[currentKey(domain)]
        hasCurrent == Truthy(currentContent)
        newUrls == DiffAgainst(newContent, currentContent)
        s1 == IF hasCurrent
              THEN put(store, latestKey(domain), currentContent[1])
              ELSE store
        w1 == IF hasCurrent THEN <<latestKey(domain)>> ELSE <<>>
        s2 == put(s1, currentKey(domain), newContent)
        w2 == Append(w1, currentKey(domain))
        s3 == put(s2, datedKey(domain, today), newContent)
        w3 == Append(w2, datedKey(domain, today))
        s4 == put(s3, lastUpdateKey(domain), today)
        w4 == Append(w3, lastUpdateKey(domain))
    IN IF hasCurrent /\ "put_latest" \in faults
       THEN Effect(store, Unset, "KV put failed", TRUE, <<>>, "fetch", newContent)
       ELSE IF "put_current" \in faults
       THEN Effect(s1, Unset, "KV put failed", TRUE, w1, "fetch", newContent)
       ELSE IF "put_dated" \in faults
       THEN Effect(s2, Unset, "KV put failed", TRUE, w2, "fetch", newContent)
       ELSE IF "put_last_update" \in faults
       THEN Effect(s3, Unset, "KV put failed", TRUE, w3, "fetch", newContent)
       ELSE Effect(s4,
                   DownloadResult(TRUE, "", <<datedKey(domain, today)>>, newUrls),
                   "", TRUE, w4, "fetch", newContent)

\* mutant of FetchBranch: the marker is written before the response is checked
FetchBranch_MarkFirst(store, today, url, domain, resp, faults) ==
  IF FetchError(url, resp) # ""
  THEN Effect(put(store, lastUpdateKey(domain), today), Unset,
              FetchError(url, resp), TRUE, <<lastUpdateKey(domain)>>, "fetch",
              EmptyBody)
  ELSE SaveSnapshot(store, today, domain, resp.text, faults)

\* lines 94-147
FetchBranch(store, today, url, domain, resp, faults) ==
  IF FetchError(url, resp) # ""
  THEN Effect(store, Unset, FetchError(url, resp), TRUE, <<>>, "fetch", EmptyBody)
  ELSE SaveSnapshot(store, today, domain, resp.text, faults)

\* the try block of downloadSitemap, lines 62-147
TryDownload(store, today, url, forceDownload, resp, faults) ==
  IF ~ValidURL(url)
  THEN Effect(store, Unset, "Invalid URL", FALSE, <<>>, "none", EmptyBody)
  ELSE IF "get_last_update" \in faults
  THEN Effect(store, Unset, "KV get failed", FALSE, <<>>, "none", EmptyBody)
  ELSE
    LET domain == hostname(url)
        lastUpdate == store[lastUpdateKey(domain)]
    IN IF ThrottleHit(forceDownload, lastUpdate, today)
       THEN ThrottleBranch(store, domain, faults)
       ELSE FetchBranch(store, today, url, domain, resp, faults)

\* mutant of CatchDownload: the error is rethrown
CatchDownload_Rethrow(e) == e

\* the catch block of downloadSitemap, lines 148-158
CatchDownload(e) ==
  IF e.exc # ""
  THEN [e EXCEPT !.out = DownloadResult(FALSE, MsgDownloadFailed \o e.exc, Null, <<>>)]
  ELSE e

downloadSitemap(store, today, url, forceDownload, resp, faults) ==
  CatchDownload(TryDownload(store, today, url, forceDownload, resp, faults))

\* ------------------------------------------------------------ registry
\* The registry is stored as JSON text, here the sequence of its tokens: an
\* opening bracket, the strings, a closing bracket.
JSON_stringify(feeds) == <<"[">> \o feeds \o <<"]">>

\* JSON.parse throws on a text that is not a bracketed list
WellFormed(text) ==
  /\ Len(text) >= 2
  /\ text[1] = "[" /\ text[Len(text)] = "]"
  /\ \A i \in 2..(Len(text) - 1) : text[i] \notin {"[", "]"}

JSON_parse(text) == SubSeq(text, 2, Len(text) - 1)

\* mutant of getFeeds: no catch, the error object is what the caller gets
getFeeds_NoCatch(store, faults) ==
  IF "get_feeds" \in faults THEN <<"Error">>
  ELSE IF store[feedsKey] = Null \/ store[feedsKey][1] = <<>> THEN <<>>
  ELSE IF ~WellFormed(store[feedsKey][1]) THEN <<"SyntaxError">>
  ELSE JSON_parse(store[feedsKey][1])

\* getFeeds: the stored list; [] when the key is absent or holds the empty
\* string, and, through the catch, when the read or JSON.parse throws
getFeeds(store, faults) ==
  IF "get_feeds" \in faults THEN <<>>
  ELSE IF store[feedsKey] = Null \/ store[feedsKey][1] = <<>> THEN <<>>
  ELSE IF ~WellFormed(store[feedsKey][1]) THEN <<>>
  ELSE JSON_parse(store[feedsKey][1])

\* mutant of splice: the last element is dropped, whatever the url
splice_Pop(feeds, url) == SubSeq(feeds, 1, Len(feeds) - 1)

\* feeds.splice(feeds.indexOf(url), 1)
splice(feeds, url) ==
  LET i == CHOOSE j \in 1..Len(feeds) :
             feeds[j] = url /\ \A k \in 1..(j - 1) : feeds[k] # url
  IN SubSeq(feeds, 1, i - 1) \o SubSeq(feeds, i + 1, Len(feeds))

\* What a registry operation did: the store it leaves, its result, the effect
\* of the downloadSitemap call it made (NoCall when it made none), and whether
\* its kv.put of the registry key was carried out.
NoCall == [branch |-> "nocall"]

Call(url, forceDownload, e) ==
  [url |-> url, force |-> forceDownload, out |-> e.out, exc |-> e.exc,
   fetched |-> e.fetched, writes |-> e.writes, branch |-> e.branch,
   text |-> e.text]

OpEffect(store, out, dl, wrote) ==
  [store |-> store, out |-> out, dl |-> dl, wrote |-> wrote]

\* mutant of addFeed: the source is pushed and persisted before the outcome
\* of the attempt is looked at
addFeed_PushFirst(store, today, url, resp, faults) ==
  LET feeds == getFeeds(store, faults)
      e == downloadSitemap(store, today, url, FALSE, resp, faults)
      dl == Call(url, FALSE, e)
  IN IF ~includes(feeds, url)
     THEN OpEffect(put(e.store, feedsKey, JSON_stringify(Append(feeds, url))),
            IF e.out.success
            THEN [e.out EXCEPT !.errorMsg =
                    IF e.out.errorMsg # "" THEN e.out.errorMsg ELSE MsgAdded]
            ELSE e.out,
            dl, TRUE)
     ELSE IF ~e.out.success
          THEN OpEffect(e.store, e.out, dl, FALSE)
          ELSE OpEffect(e.store, [e.out EXCEPT !.errorMsg = MsgExisting], dl, FALSE)

\* mutant of addFeed: the message of a new source is always "added"
addFeed_AlwaysAdded(store, today, url, resp, faults) ==
  LET feeds == getFeeds(store, faults)
      e == downloadSitemap(store, today, url, FALSE, resp, faults)
      dl == Call(url, FALSE, e)
  IN IF ~e.out.success
     THEN OpEffect(e.store, e.out, dl, FALSE)
     ELSE IF ~includes(feeds, url)
     THEN OpEffect(put(e.store, feedsKey, JSON_stringify(Append(feeds, url))),
            [e.out EXCEPT !.errorMsg = MsgAdded], dl, TRUE)
     ELSE OpEffect(e.store, [e.out EXCEPT !.errorMsg = MsgExisting], dl, FALSE)

\* addFeed, lines 166-209
addFeed(store, today, url, resp, faults) ==
  LET feeds == getFeeds(store, faults)
      e == downloadSitemap(store, today, url, FALSE, resp, faults)
      dl == Call(url, FALSE, e)
  IN IF e.out = Unset
     THEN OpEffect(e.store,
            DownloadResult(FALSE, MsgAddFailed \o e.exc, Null, <<>>), dl, FALSE)
     ELSE IF ~includes(feeds, url)
     THEN IF ~e.out.success
          THEN OpEffect(e.store, e.out, dl, FALSE)
          ELSE IF "put_feeds" \in faults
          THEN OpEffect(e.store,
                 DownloadResult(FALSE, MsgAddFailed \o "KV put failed", Null, <<>>),
                 dl, FALSE)
          ELSE OpEffect(put(e.store, feedsKey, JSON_stringify(Append(feeds, url))),
                 [e.out EXCEPT !.errorMsg =
                    IF e.out.errorMsg # "" THEN e.out.errorMsg ELSE MsgAdded],
                 dl, TRUE)
     ELSE IF ~e.out.success
          THEN OpEffect(e.store, e.out, dl, FALSE)
          ELSE OpEffect(e.store, [e.out EXCEPT !.errorMsg = MsgExisting], dl, FALSE)

RemoveFeedResult(success, errorMsg) ==
  [success |-> success, errorMsg |-> errorMsg]

\* mutant of removeFeed: the slots of the source's domain are cleared with it
removeFeed_Cleanup(store, url, faults) ==
  LET feeds == getFeeds(store, faults)
  IN IF ~includes(feeds, url)
     THEN OpEffect(store, RemoveFeedResult(FALSE, MsgNotFound), NoCall, FALSE)
     ELSE OpEffect(
            [k \in Keys |->
               IF k = feedsKey THEN <<JSON_stringify(splice(feeds, url))>>
               ELSE IF ValidURL(url) /\ k[2] = hostname(url) THEN Null
               ELSE store[k]],
            RemoveFeedResult(TRUE, ""), NoCall, TRUE)

\* removeFeed, lines 216-245
removeFeed(store, url, faults) ==
  LET feeds == getFeeds(store, faults)
  IN IF ~includes(feeds, url)
     THEN OpEffect(store, RemoveFeedResult(FALSE, MsgNotFound), NoCall, FALSE)
     ELSE IF "put_feeds" \in faults
     THEN OpEffect(store,
            RemoveFeedResult(FALSE, MsgRemoveFailed \o "KV put failed"), NoCall,
            FALSE)
     ELSE OpEffect(put(store, feedsKey, JSON_stringify(splice(feeds, url))),
            RemoveFeedResult(TRUE, ""), NoCall, TRUE)

\* ------------------------------------------------------------ state machine
Idle == [kind |-> "idle"]

DomainKeys(domain) ==
  {lastUpdateKey(domain), currentKey(domain), latestKey(domain)}
    \cup {datedKey(domain, t) : t \in Days}

NoStores == [d \in Domains |-> [n |-> 0, forced |-> FALSE]]

NoneSeen == [s \in Sources |-> Null]

\* Observer of lines 134-147: one more document fetched and stored for the
\* domain of the call when the call took the fetch branch and returned success.
Count(dl) ==
  IF dl # NoCall /\ dl.out # Unset /\ dl.branch = "fetch" /\ dl.out.success
  THEN [stores EXCEPT ![hostname(dl.url)] =
          [n |-> IF @.n < MaxStores THEN @.n + 1 ELSE @.n,
           forced |-> @.forced \/ dl.force]]
  ELSE stores

Init ==
  /\ kv = [k \in Keys |-> Null]
  /\ day = 1
  /\ pass = Idle
  /\ last = [op |-> "init", dl |-> NoCall]
  /\ stores = NoStores
  /\ procs = EmptyBag
  /\ reported = {}
  /\ seen = NoneSeen

\* the UTC calendar day advances
Tick ==
  /\ day < MaxDay
  /\ day' = day + 1
  /\ last' = [op |-> "tick", dl |-> NoCall]
  /\ stores' = NoStores
  /\ UNCHANGED <<kv, pass, procs, reported, seen>>

\* /rss add <url>
AddFeedBody(url, resp, faults) ==
  LET r == addFeed(kv, Today, url, resp, faults)
  IN /\ kv' = r.store
     /\ last' = [op |-> "addFeed", url |-> url, out |-> r.out, dl |-> r.dl,
                 wrote |-> r.wrote]
     /\ stores' = Count(r.dl)
     /\ UNCHANGED <<day, pass, procs, reported>>

AddFeed(url, resp, faults) == AddFeedBody(url, resp, faults) /\ UNCHANGED seen

\* the same call, with the document it fetched and stored for the source kept
ObservedAddFeed(url, resp, faults) ==
  /\ AddFeedBody(url, resp, faults)
  /\ seen' = IF last'.dl # NoCall /\ last'.dl.branch = "fetch"
                 /\ last'.dl.out.success
              THEN [seen EXCEPT ![url] = <<last'.dl.text>>]
              ELSE seen

\* /rss del <url>
RemoveFeed(url, faults) ==
  LET r == removeFeed(kv, url, faults)
  IN /\ kv' = r.store
     /\ last' = [op |-> "removeFeed", url |-> url, out |-> r.out, dl |-> r.dl,
                 wrote |-> r.wrote]
     /\ UNCHANGED <<day, pass, stores, procs, reported, seen>>

\* ------------------------------------------------------------------ passes
\* domainResults: the Map of the pass, as its entries in insertion order
DomainResult(domain, newUrls, totalNew) ==
  [domain |-> domain, newUrls |-> newUrls, totalNew |-> totalNew]

has(domainResults, domain) ==
  \E i \in 1..Len(domainResults) : domainResults[i].domain = domain

\* mutant of Group: totalNew counts the attempts that brought new URLs
Group_CountAttempts(domainResults, domain, newUrls) ==
  LET withEntry == IF has(domainResults, domain)
                   THEN domainResults
                   ELSE Append(domainResults, DomainResult(domain, <<>>, 0))
  IN IF Len(newUrls) > 0
     THEN [i \in 1..Len(withEntry) |->
             IF withEntry[i].domain = domain
             THEN DomainResult(domain, withEntry[i].newUrls \o newUrls,
                               withEntry[i].totalNew + 1)
             ELSE withEntry[i]]
     ELSE withEntry

\* lines 231-252 of performScheduledMonitoring, 599-618 of handleNewsCommand
Group(domainResults, domain, newUrls) ==
  LET withEntry == IF has(domainResults, domain)
                   THEN domainResults
                   ELSE Append(domainResults, DomainResult(domain, <<>>, 0))
  IN IF Len(newUrls) > 0
     THEN [i \in 1..Len(withEntry) |->
             IF withEntry[i].domain = domain
             THEN DomainResult(domain, withEntry[i].newUrls \o newUrls,
                               withEntry[i].totalNew + Len(newUrls))
             ELSE withEntry[i]]
     ELSE withEntry

\* One attempt of a pass, as the history of the pass records it
Attempt(url, returned, success) ==
  [url |-> url, returned |-> returned, success |-> success]

\* The local variables of a pass; attempts is its history: the sources it has
\* called the attempt for, in the order of the calls, with what came back.
Running(kind, feeds) ==
  [kind |-> kind, feeds |-> feeds, i |-> 1, domainResults |-> <<>>,
   allNewUrls |-> <<>>, processedCount |-> 0, errorCount |-> 0,
   attempts |-> <<>>]

\* performScheduledMonitoring (cron, POST /monitor) and handleNewsCommand
\* (/news) up to the loop: read the registry, stop when it is empty
PassStart(kind, faults) ==
  /\ pass = Idle
  /\ LET feeds == getFeeds(kv, faults)
     IN /\ pass' = IF Len(feeds) = 0 THEN Idle ELSE Running(kind, feeds)
        /\ last' = [op |-> "passStart", kind |-> kind, feeds |-> feeds,
                    dl |-> NoCall]
  /\ UNCHANGED <<kv, day, stores, procs, reported, seen>>

\* mutant of ScheduledStep: a failed attempt ends the loop
ScheduledStep_Abort(resp, faults) ==
  /\ pass # Idle
  /\ pass.kind = "scheduled"
  /\ pass.i <= Len(pass.feeds)
  /\ LET url == pass.feeds[pass.i]
         r == addFeed(kv, Today, url, resp, faults)
     IN /\ kv' = r.store
        /\ last' = [op |-> "scheduledStep", url |-> url, out |-> r.out,
                    dl |-> r.dl, wrote |-> r.wrote]
        /\ stores' = Count(r.dl)
        /\ pass' =
             IF r.out.success
             THEN [pass EXCEPT
                     !.i = @ + 1,
                     !.processedCount = @ + 1,
                     !.domainResults = Group(@, hostname(url), r.out.newUrls),
                     !.allNewUrls = @ \o r.out.newUrls,
                     !.attempts = Append(@, Attempt(url, TRUE, TRUE))]
             ELSE [pass EXCEPT
                     !.i = Len(pass.feeds) + 1,
                     !.processedCount = @ + 1,
                     !.errorCount = @ + 1,
                     !.attempts = Append(@, Attempt(url, TRUE, FALSE))]
  /\ UNCHANGED <<day, procs, reported, seen>>

\* one iteration of the loop of performScheduledMonitoring: addFeed(url) and
\* what the loop does with its result
ScheduledBody(resp, faults) ==
  /\ pass # Idle
  /\ pass.kind = "scheduled"
  /\ pass.i <= Len(pass.feeds)
  /\ LET url == pass.feeds[pass.i]
         r == addFeed(kv, Today, url, resp, faults)
     IN /\ kv' = r.store
        /\ last' = [op |-> "scheduledStep", url |-> url, out |-> r.out,
                    dl |-> r.dl, wrote |-> r.wrote]
        /\ stores' = Count(r.dl)
        /\ pass' =
             IF r.out.success
             THEN [pass EXCEPT
                     !.i = @ + 1,
                     !.processedCount = @ + 1,
                     !.domainResults = Group(@, hostname(url), r.out.newUrls),
                     !.allNewUrls = @ \o r.out.newUrls,
                     !.attempts = Append(@, Attempt(url, TRUE, TRUE))]
             ELSE [pass EXCEPT
                     !.i = @ + 1,
                     !.processedCount = @ + 1,
                     !.errorCount = @ + 1,
                     !.attempts = Append(@, Attempt(url, TRUE, FALSE))]

ScheduledIteration(resp, faults) ==
  ScheduledBody(resp, faults) /\ UNCHANGED <<day, procs>>

ScheduledStep(resp, faults) ==
  ScheduledIteration(resp, faults) /\ UNCHANGED <<reported, seen>>

\* What a scheduled iteration shows of the remote document and of the report:
\* a URL missing from the document fetched for the source has disappeared,
\* and every URL of newUrls is reported as new for the source.
Observe(url, dl, out) ==
  LET gone == IF dl # NoCall /\ dl.branch = "fetch" /\ dl.out.success
              THEN {e \in reported :
                      e[1] = url /\ ~includes(extractURLs(dl.text), e[2])}
              ELSE {}
      new == IF out.success
             THEN {<<url, out.newUrls[k]>> : k \in 1..Len(out.newUrls)}
             ELSE {}
  IN (reported \ gone) \cup new

\* the same iteration, with what it reported kept
ObservedStep(resp, faults) ==
  /\ ScheduledIteration(resp, faults)
  /\ reported' = Observe(last'.url, last'.dl, last'.out)
  /\ UNCHANGED seen

\* one iteration of the loop of handleNewsCommand: downloadSitemap(url, true)
NewsStep(resp, faults) ==
  /\ pass # Idle
  /\ pass.kind = "news"
  /\ pass.i <= Len(pass.feeds)
  /\ LET url == pass.feeds[pass.i]
         e == downloadSitemap(kv, Today, url, TRUE, resp, faults)
         dl == Call(url, TRUE, e)
     IN /\ kv' = e.store
        /\ last' = [op |-> "newsStep", url |-> url, out |-> e.out, dl |-> dl]
        /\ stores' = Count(dl)
        /\ pass' =
             IF e.out = Unset
             THEN [pass EXCEPT
                     !.i = @ + 1,
                     !.errorCount = @ + 1,
                     !.attempts = Append(@, Attempt(url, FALSE, FALSE))]
             ELSE IF e.out.success
             THEN [pass EXCEPT
                     !.i = @ + 1,
                     !.processedCount = @ + 1,
                     !.domainResults = Group(@, hostname(url), e.out.newUrls),
                     !.allNewUrls = @ \o e.out.newUrls,
                     !.attempts = Append(@, Attempt(url, TRUE, TRUE))]
             ELSE [pass EXCEPT
                     !.i = @ + 1,
                     !.processedCount = @ + 1,
                     !.attempts = Append(@, Attempt(url, TRUE, FALSE))]
  /\ UNCHANGED <<day, procs, reported, seen>>

\* TELEGRAM_TARGET_CHAT as configured, and the chat a /news command came from
TargetChat == "target chat"

\* sendUnifiedReport, telegram-bot.ts 224-306: nothing is sent without a chat
\* id; otherwise one message is built and handed to sendMessage, with the
\* "no new content" lines when allNewUrls is empty.
sendUnifiedReport(allNewUrls, chatId) ==
  [sent |-> chatId # "", noNewContent |-> Len(allNewUrls) = 0]

\* mutant of PassEnd: no report when every attempt was counted as an error
PassEnd_SkipWhenAllFailed ==
  /\ pass # Idle
  /\ pass.kind \in {"scheduled", "news"}
  /\ pass.i > Len(pass.feeds)
  /\ last' = IF pass.errorCount = pass.processedCount
             THEN [op |-> "return", kind |-> pass.kind, dl |-> NoCall]
             ELSE [op |-> "sendUnifiedReport", kind |-> pass.kind,
                   domainResults |-> pass.domainResults,
                   allNewUrls |-> pass.allNewUrls,
                   processedCount |-> pass.processedCount,
                   errorCount |-> pass.errorCount, attempts |-> pass.attempts,
                   dl |-> NoCall]
  /\ pass' = Idle
  /\ UNCHANGED <<kv, day, stores, procs, reported, seen>>

\* after the loop: sendUnifiedReport(domainResults, allNewUrls, ...)
PassEnd ==
  /\ pass # Idle
  /\ pass.kind \in {"scheduled", "news"}
  /\ pass.i > Len(pass.feeds)
  /\ last' = [op |-> "sendUnifiedReport", kind |-> pass.kind,
              domainResults |-> pass.domainResults,
              allNewUrls |-> pass.allNewUrls,
              processedCount |-> pass.processedCount,
              errorCount |-> pass.errorCount, attempts |-> pass.attempts,
              message |-> sendUnifiedReport(pass.allNewUrls, TargetChat),
              dl |-> NoCall]
  /\ pass' = Idle
  /\ UNCHANGED <<kv, day, stores, procs, reported, seen>>

\* one iteration of the loop of handleDiscordNewsCommand: addFeed(url)
DiscordNewsStep(resp, faults) ==
  /\ pass # Idle
  /\ pass.kind = "discordNews"
  /\ pass.i <= Len(pass.feeds)
  /\ LET url == pass.feeds[pass.i]
         r == addFeed(kv, Today, url, resp, faults)
     IN /\ kv' = r.store
        /\ last' = [op |-> "discordNewsStep", url |-> url, out |-> r.out,
                    dl |-> r.dl, wrote |-> r.wrote]
        /\ stores' = Count(r.dl)
        /\ pass' =
             [pass EXCEPT
                !.i = @ + 1,
                !.allNewUrls = IF r.out.success THEN @ \o r.out.newUrls ELSE @,
                !.attempts = Append(@, Attempt(url, TRUE, r.out.success))]
  /\ UNCHANGED <<day, procs, reported, seen>>

\* after the loop of handleDiscordNewsCommand: the reply string
DiscordNewsEnd ==
  /\ pass # Idle
  /\ pass.kind = "discordNews"
  /\ pass.i > Len(pass.feeds)
  /\ last' = [op |-> "discordReply", kind |-> pass.kind,
              allNewUrls |-> pass.allNewUrls, attempts |-> pass.attempts,
              dl |-> NoCall]
  /\ pass' = Idle
  /\ UNCHANGED <<kv, day, stores, procs, reported, seen>>

\* ------------------------------------------------------- specifications
\* Spec: handlers run one at a time against a store that does not fail; a
\* pass, once started, runs to its report before the next command is served.
SeqSources == {SrcA, SrcA2, SrcBad}
NoFault == {{}}

Next ==
  \/ Tick
  \/ /\ pass = Idle
     /\ \E url \in SeqSources, resp \in Responses, faults \in NoFault :
          AddFeed(url, resp, faults)
  \/ /\ pass = Idle
     /\ \E url \in SeqSources, faults \in NoFault : RemoveFeed(url, faults)
  \/ \E kind \in {"scheduled", "news"}, faults \in NoFault :
       PassStart(kind, faults)
  \/ \E resp \in Responses, faults \in NoFault : ScheduledStep(resp, faults)
  \/ \E resp \in Responses, faults \in NoFault : NewsStep(resp, faults)
  \/ PassEnd

Spec == Init /\ [][Next]_vars

\* SpecFair: the same handlers, with a pass that has started going on: each
\* await of its loop resolves, so its next iteration, or its report, is
\* eventually run.  Two sources of one host; a fetch fails or brings a document.
FairSources == {SrcA, SrcA2}
FairResponses == {HttpError, Ok(Body1)}

PassStep ==
  \/ \E resp \in FairResponses, faults \in NoFault : ScheduledStep(resp, faults)
  \/ \E resp \in FairResponses, faults \in NoFault : NewsStep(resp, faults)
  \/ PassEnd

NextFair ==
  \/ Tick
  \/ /\ pass = Idle
     /\ \E url \in FairSources, resp \in FairResponses, faults \in NoFault :
          AddFeed(url, resp, faults)
  \/ /\ pass = Idle
     /\ \E url \in FairSources, faults \in NoFault : RemoveFeed(url, faults)
  \/ \E kind \in {"scheduled", "news"}, faults \in NoFault :
       PassStart(kind, faults)
  \/ PassStep

SpecFair == Init /\ [][NextFair]_vars /\ WF_vars(PassStep)

\* SpecFaults: the registry commands against a store whose reads and writes
\* may throw (StorageError).
FaultSources == {SrcA2, SrcBad}
FaultResponses == {NetworkError, NoBody, Ok(Body1), Ok(Body2)}

NextFaults ==
  \/ Tick
  \/ \E url \in FaultSources, resp \in FaultResponses, faults \in FaultSets :
       AddFeed(url, resp, faults)
  \/ \E url \in FaultSources, faults \in FaultSets : RemoveFeed(url, faults)

SpecFaults == Init /\ [][NextFaults]_vars

\* SpecTrigger: one source, and the three triggers of a pass: the timer (or
\* POST /monitor), /news on Telegram and /news on Discord.
TriggerSources == {SrcA}
TriggerResponses == {HttpError, Ok(Body1), Ok(Body2)}
Triggers == {"scheduled", "news", "discordNews"}

NextTrigger ==
  \/ Tick
  \/ /\ pass = Idle
     /\ \E url \in TriggerSources, resp \in TriggerResponses, faults \in NoFault :
          AddFeed(url, resp, faults)
  \/ \E kind \in Triggers, faults \in NoFault : PassStart(kind, faults)
  \/ \E resp \in TriggerResponses, faults \in NoFault :
       ScheduledStep(resp, faults)
  \/ \E resp \in TriggerResponses, faults \in NoFault : NewsStep(resp, faults)
  \/ \E resp \in TriggerResponses, faults \in NoFault :
       DiscordNewsStep(resp, faults)
  \/ PassEnd
  \/ DiscordNewsEnd

SpecTrigger == Init /\ [][NextTrigger]_vars

\* SpecReport: sources are added, then scheduled passes run over the days;
\* the remote document is what each fetch brings.
ReportSources == {SrcA, SrcA2}
ReportResponses == {HttpError, Ok(Body1), Ok(Body2)}

NextReport ==
  \/ Tick
  \/ /\ pass = Idle
     /\ \E url \in ReportSources, resp \in ReportResponses, faults \in NoFault :
          ~includes(getFeeds(kv, faults), url) /\ AddFeed(url, resp, faults)
  \/ \E faults \in NoFault : PassStart("scheduled", faults)
  \/ \E resp \in ReportResponses, faults \in NoFault :
       ObservedStep(resp, faults)
  \/ PassEnd

SpecReport == Init /\ [][NextReport]_vars

\* ------------------------------------------------- interleaved invocations
\* SpecConc: invocations of addFeed, removeFeed and of the two passes run
\* interleaved, at most MaxProcs at a time.  An invocation holds the list it
\* read from the registry in its local variable feeds and yields at its
\* awaits: after getFeeds(), after downloadSitemap(), after
\* kv.put(feedsKey).  todo is what is left of the sources it visits (one source
\* for addFeed and removeFeed).  The calendar day does not change while they
\* run.
Proc(kind, todo, pc, feeds) ==
  [kind |-> kind, todo |-> todo, pc |-> pc, feeds |-> feeds]

Start(proc) == procs (+) SetToBag({proc})
Replace(proc, next) == (procs (-) SetToBag({proc})) (+) SetToBag({next})

\* the invocations in flight after proc is done with the head of its todo
Advance(proc) ==
  IF Len(proc.todo) = 1 THEN procs (-) SetToBag({proc})
  ELSE Replace(proc,
         Proc(proc.kind, Tail(proc.todo),
              IF proc.kind = "news" THEN "download" ELSE "getFeeds", <<>>))

\* addFeed(url) up to the return of getFeeds(), lines 166-170
ConcAddFeed(url) ==
  /\ BagCardinality(procs) < MaxProcs
  /\ procs' = Start(Proc("addFeed", <<url>>, "download", getFeeds(kv, {})))
  /\ last' = [op |-> "getFeeds", kind |-> "addFeed", url |-> url,
              dl |-> NoCall, wrote |-> FALSE]
  /\ UNCHANGED <<kv, day, pass, stores, reported, seen>>

\* a pass up to the return of its getFeeds(): index.ts 205-210, telegram-bot.ts
\* 577-586
ConcPass(kind) ==
  /\ BagCardinality(procs) < MaxProcs
  /\ LET feeds == getFeeds(kv, {})
     IN procs' = IF Len(feeds) = 0 THEN procs
                 ELSE Start(Proc(kind, feeds,
                              IF kind = "news" THEN "download" ELSE "getFeeds",
                              <<>>))
  /\ last' = [op |-> "passStart", kind |-> kind, dl |-> NoCall,
              wrote |-> FALSE]
  /\ UNCHANGED <<kv, day, pass, stores, reported, seen>>

\* the addFeed(url) of a scheduled pass up to the return of getFeeds()
ConcGetFeeds(proc) ==
  /\ proc.pc = "getFeeds"
  /\ procs' = Replace(proc, [proc EXCEPT !.pc = "download",
                                         !.feeds = getFeeds(kv, {})])
  /\ last' = [op |-> "getFeeds", kind |-> proc.kind, url |-> Head(proc.todo),
              dl |-> NoCall, wrote |-> FALSE]
  /\ UNCHANGED <<kv, day, pass, stores, reported, seen>>

\* downloadSitemap(url) of addFeed, lines 172-176 and 189-192, and
\* downloadSitemap(url, true) of the on-demand pass, telegram-bot.ts 594
ConcDownload(proc, resp) ==
  /\ proc.pc = "download"
  /\ LET url == Head(proc.todo)
         force == proc.kind = "news"
         e == downloadSitemap(kv, Today, url, force, resp, {})
         dl == Call(url, force, e)
         push == ~force /\ ~includes(proc.feeds, url) /\ e.out.success
     IN /\ kv' = e.store
        /\ stores' = Count(dl)
        /\ procs' = IF push THEN Replace(proc, [proc EXCEPT !.pc = "put"])
                    ELSE Advance(proc)
        /\ last' = [op |-> "downloadSitemap", kind |-> proc.kind, url |-> url,
                    feeds |-> proc.feeds, dl |-> dl, wrote |-> FALSE]
  /\ UNCHANGED <<day, pass, reported, seen>>

\* feeds.push(url); kv.put(feedsKey, feeds): lines 179-180
ConcPut(proc) ==
  /\ proc.pc = "put"
  /\ LET url == Head(proc.todo)
     IN /\ kv' = put(kv, feedsKey, JSON_stringify(Append(proc.feeds, url)))
        /\ procs' = Advance(proc)
        /\ last' = [op |-> "putFeeds", kind |-> proc.kind, url |-> url,
                    feeds |-> proc.feeds, dl |-> NoCall, wrote |-> TRUE]
  /\ UNCHANGED <<day, pass, stores, reported, seen>>

\* removeFeed(url) up to the return of getFeeds() and the test of line 221
ConcRemoveFeed(url) ==
  /\ BagCardinality(procs) < MaxProcs
  /\ LET feeds == getFeeds(kv, {})
     IN procs' = IF includes(feeds, url)
                 THEN Start(Proc("removeFeed", <<url>>, "splice", feeds))
                 ELSE procs
  /\ last' = [op |-> "getFeeds", kind |-> "removeFeed", url |-> url,
              dl |-> NoCall, wrote |-> FALSE]
  /\ UNCHANGED <<kv, day, pass, stores, reported, seen>>

\* feeds.splice(...); kv.put(feedsKey, feeds): lines 229-230
ConcSplice(proc) ==
  /\ proc.pc = "splice"
  /\ LET url == Head(proc.todo)
     IN /\ kv' = put(kv, feedsKey, JSON_stringify(splice(proc.feeds, url)))
        /\ procs' = procs (-) SetToBag({proc})
        /\ last' = [op |-> "putFeeds", kind |-> proc.kind, url |-> url,
                    feeds |-> proc.feeds, dl |-> NoCall, wrote |-> TRUE]
  /\ UNCHANGED <<day, pass, stores, reported, seen>>

ConcSources == {SrcA, SrcA2}
ConcResponses == {HttpError, Ok(Body1)}

NextConc ==
  \/ \E url \in ConcSources : ConcAddFeed(url)
  \/ \E url \in ConcSources : ConcRemoveFeed(url)
  \/ \E kind \in {"scheduled", "news"} : ConcPass(kind)
  \/ \E proc \in BagToSet(procs) : ConcGetFeeds(proc)
  \/ \E proc \in BagToSet(procs), resp \in ConcResponses :
       ConcDownload(proc, resp)
  \/ \E proc \in BagToSet(procs) : ConcPut(proc)
  \/ \E proc \in BagToSet(procs) : ConcSplice(proc)

SpecConc == Init /\ [][NextConc]_vars

\* SpecSources: two sources of one host are added and added again over the
\* days; each fetch brings the document of the source it is for.
SharedSources == {SrcA, SrcA2}
SharedResponses == {HttpError, Ok(Body1), Ok(Body2)}

NextSources ==
  \/ Tick
  \/ \E url \in SharedSources, resp \in SharedResponses, faults \in NoFault :
       ObservedAddFeed(url, resp, faults)

SpecSources == Init /\ [][NextSources]_vars

\* --------------------------------------------- the loop and its await
\* SpecSeq: the loop of performScheduledMonitoring with `await
\* rssManager.addFeed(url)` in two steps, the call and its return.  procs holds
\* the attempts of the pass that have been called and have not returned.
Outstanding(i) == [attempt |-> i]

\* mutant of SeqCall: the call is not awaited, the loop goes on
SeqCall_NoAwait ==
  /\ pass # Idle
  /\ pass.kind = "scheduled"
  /\ pass.i + BagCardinality(procs) <= Len(pass.feeds)
  /\ BagCardinality(procs) < MaxProcs
  /\ procs' = procs (+) SetToBag({Outstanding(pass.i + BagCardinality(procs))})
  /\ last' = [op |-> "call", i |-> pass.i + BagCardinality(procs),
              dl |-> NoCall]
  /\ UNCHANGED <<kv, day, pass, stores, reported, seen>>

\* line 227, the call: control is at the head of the loop body, no attempt of
\* the pass is awaited
SeqCall ==
  /\ pass # Idle
  /\ pass.kind = "scheduled"
  /\ pass.i <= Len(pass.feeds)
  /\ procs = EmptyBag
  /\ procs' = procs (+) SetToBag({Outstanding(pass.i)})
  /\ last' = [op |-> "call", i |-> pass.i, dl |-> NoCall]
  /\ UNCHANGED <<kv, day, pass, stores, reported, seen>>

\* line 227, the return of the awaited call, and the rest of the loop body
SeqReturn(resp) ==
  /\ pass # Idle
  /\ BagIn(Outstanding(pass.i), procs)
  /\ ScheduledBody(resp, {})
  /\ procs' = procs (-) SetToBag({Outstanding(pass.i)})
  /\ UNCHANGED <<day, reported, seen>>

\* the pass ends when the loop is over
SeqEnd == procs = EmptyBag /\ PassEnd

LoopSources == {SrcA, SrcA2}
LoopResponses == {HttpError, Ok(Body1), Ok(Body2)}

NextSeq ==
  \/ Tick
  \/ /\ pass = Idle
     /\ \E url \in LoopSources, resp \in LoopResponses, faults \in NoFault :
          AddFeed(url, resp, faults)
  \/ \E faults \in NoFault : PassStart("scheduled", faults)
  \/ SeqCall
  \/ \E resp \in LoopResponses : SeqReturn(resp)
  \/ SeqEnd

SpecSeq == Init /\ [][NextSeq]_vars

\* ------------------------------------- downloadSitemap, await by await
\* SpecRace: invocations of downloadSitemap on one source, by scheduled passes
\* (not forced) and by /news (forced), interleaved at every await of lines
\* 57-159.  An invocation keeps its locals: where it is, the document it
\* fetched and the value it read from the current slot.  `alone` is history:
\* no other invocation has taken a step since this one read the current slot.
RaceSource == SrcA
RaceDomain == hostname(RaceSource)
RaceResponses == {HttpError, Ok(Body1), Ok(Body2)}

Invocation(pc, force, newContent, currentContent, alone) ==
  [pc |-> pc, force |-> force, newContent |-> newContent,
   currentContent |-> currentContent, alone |-> alone]

Disturbed(q) == [q EXCEPT !.alone = FALSE]

\* the invocations in flight once inv has moved to next, or has returned
Moved(inv, next) ==
  BagOfAll(Disturbed, procs (-) SetToBag({inv})) (+) SetToBag({next})
Returned(inv) == BagOfAll(Disturbed, procs (-) SetToBag({inv}))

RaceLast(op, inv) ==
  [op |-> op, force |-> inv.force, alone |-> inv.alone,
   overwritten |-> Null, dl |-> NoCall]

\* the call, up to the read of the marker (line 69) and the test of line 71;
\* on the throttle branch the two reads of lines 73-74 and the return
RaceStart(force) ==
  /\ BagCardinality(procs) < MaxProcs
  /\ LET inv == Invocation("fetch", force, Null, Null, FALSE)
     IN /\ procs' = IF ~force /\ kv[lastUpdateKey(RaceDomain)] = <<day>>
                    THEN BagOfAll(Disturbed, procs)
                    ELSE BagOfAll(Disturbed, procs) (+) SetToBag({inv})
        /\ last' = RaceLast(IF ~force /\ kv[lastUpdateKey(RaceDomain)] = <<day>>
                            THEN "throttle" ELSE "getLastUpdate", inv)
  /\ UNCHANGED <<kv, day, pass, stores, reported, seen>>

\* fetch(url) and the body, lines 100-121
RaceFetch(inv, resp) ==
  /\ inv.pc = "fetch"
  /\ procs' = IF resp.net /\ resp.ok /\ resp.hasBody
              THEN Moved(inv, [inv EXCEPT !.pc = "getCurrent",
                                          !.newContent = <<resp.text>>])
              ELSE Returned(inv)
  /\ last' = RaceLast("fetch", inv)
  /\ UNCHANGED <<kv, day, pass, stores, reported, seen>>

\* const currentContent = await this.kv.get(...), lines 127-128
RaceGetCurrent(inv) ==
  /\ inv.pc = "getCurrent"
  /\ procs' = Moved(inv, [inv EXCEPT
                 !.pc = IF Truthy(kv[currentKey(RaceDomain)])
                        THEN "putLatest" ELSE "putCurrent",
                 !.currentContent = kv[currentKey(RaceDomain)],
                 !.alone = TRUE])
  /\ last' = RaceLast("getCurrent", inv)
  /\ UNCHANGED <<kv, day, pass, stores, reported, seen>>

\* mutant of RacePutLatest: the fetched document is promoted
RacePutLatest_NewContent(inv) ==
  /\ inv.pc = "putLatest"
  /\ kv' = put(kv, latestKey(RaceDomain), inv.newContent[1])
  /\ procs' = Moved(inv, [inv EXCEPT !.pc = "putCurrent"])
  /\ last' = RaceLast("putLatest", inv)
  /\ UNCHANGED <<day, pass, stores, reported, seen>>

\* await this.kv.put(`sitemap_latest_${domain}`, currentContent), line 131
RacePutLatest(inv) ==
  /\ inv.pc = "putLatest"
  /\ kv' = put(kv, latestKey(RaceDomain), inv.currentContent[1])
  /\ procs' = Moved(inv, [inv EXCEPT !.pc = "putCurrent"])
  /\ last' = RaceLast("putLatest", inv)
  /\ UNCHANGED <<day, pass, stores, reported, seen>>

\* await this.kv.put(`sitemap_current_${domain}`, newContent), line 135: the
\* document is stored
RacePutCurrent(inv) ==
  /\ inv.pc = "putCurrent"
  /\ kv' = put(kv, currentKey(RaceDomain), inv.newContent[1])
  /\ procs' = Moved(inv, [inv EXCEPT !.pc = "putDated", !.alone = FALSE])
  /\ last' = [RaceLast("putCurrent", inv) EXCEPT
                !.overwritten = kv[currentKey(RaceDomain)]]
  /\ stores' = [stores EXCEPT ![RaceDomain] =
                  [n |-> IF @.n < MaxStores THEN @.n + 1 ELSE @.n,
                   forced |-> @.forced \/ inv.force]]
  /\ UNCHANGED <<day, pass, reported, seen>>

\* await this.kv.put(`sitemap_dated_${domain}_${today}`, newContent), line 136
RacePutDated(inv) ==
  /\ inv.pc = "putDated"
  /\ kv' = put(kv, datedKey(RaceDomain, day), inv.newContent[1])
  /\ procs' = Moved(inv, [inv EXCEPT !.pc = "putLastUpdate"])
  /\ last' = RaceLast("putDated", inv)
  /\ UNCHANGED <<day, pass, stores, reported, seen>>

\* await this.kv.put(lastUpdateKey, today), line 139, and the return
RacePutLastUpdate(inv) ==
  /\ inv.pc = "putLastUpdate"
  /\ kv' = put(kv, lastUpdateKey(RaceDomain), day)
  /\ procs' = Returned(inv)
  /\ last' = RaceLast("putLastUpdate", inv)
  /\ UNCHANGED <<day, pass, stores, reported, seen>>

NextRace ==
  \/ \E force \in BOOLEAN : RaceStart(force)
  \/ \E inv \in BagToSet(procs) :
       \/ \E resp \in RaceResponses : RaceFetch(inv, resp)
       \/ RaceGetCurrent(inv)
       \/ RacePutLatest(inv)
       \/ RacePutCurrent(inv)
       \/ RacePutDated(inv)
       \/ RacePutLastUpdate(inv)

SpecRace == Init /\ [][NextRace]_vars

\* ------------------------------------------------------- the diff alone
\* SpecDiff: compareSitemaps applied to every pair of documents of at most
\* MaxLen markup elements: loc elements in either case, with http, https and
\* other schemes, padded or not, and an element that is not a loc.
Elems ==
  {Loc("loc", U1), Loc("loc", U2), Loc("LOC", <<WS>> \o U2 \o <<WS>>),
   Loc("loc", U3), Loc("lastmod", U1)}

DiffBodies == UNION {[1..n -> Elems] : n \in 0..MaxLen}

InitDiff ==
  /\ kv = [k \in Keys |-> Null]
  /\ day = 1
  /\ pass = Idle
  /\ stores = NoStores
  /\ procs = EmptyBag
  /\ reported = {}
  /\ seen = NoneSeen
  /\ \E a \in DiffBodies, b \in DiffBodies :
       last = [op |-> "input", a |-> a, b |-> b, dl |-> NoCall]

Compare ==
  /\ last.op = "input"
  /\ last' = [op |-> "compareSitemaps", a |-> last.a, b |-> last.b,
              out |-> compareSitemaps(last.a, last.b), dl |-> NoCall]
  /\ UNCHANGED <<kv, day, pass, stores, procs, reported, seen>>

SpecDiff == InitDiff /\ [][Compare]_vars

\* ------------------------------------------------- the registry alone
\* SpecRegistry: the registry key is absent, or holds the empty string, the
\* text of a list of at most MaxLen sources, or such a text cut short at
\* either end; getFeeds and addFeed are applied to it, the kv operations
\* failing or not.
RegistrySources == {SrcA, SrcA2, SrcB}
RegistryLists == UNION {[1..n -> RegistrySources] : n \in 0..MaxLen}
RegistryTexts ==
  {<<>>}
    \cup {JSON_stringify(l) : l \in RegistryLists}
    \cup {<<"[">> \o l : l \in RegistryLists}
    \cup {l \o <<"]">> : l \in RegistryLists}
RegistryFaults == {{}, {"get_feeds"}}
RegistryResponses == {HttpError, Ok(Body1)}

InitRegistry ==
  /\ day = 1
  /\ pass = Idle
  /\ stores = NoStores
  /\ procs = EmptyBag
  /\ reported = {}
  /\ seen = NoneSeen
  /\ last = [op |-> "init", dl |-> NoCall]
  /\ \E v \in {Null} \cup {<<t>> : t \in RegistryTexts} :
       kv = [k \in Keys |-> IF k = feedsKey THEN v ELSE Null]

GetFeeds(faults) ==
  /\ last.op = "init"
  /\ last' = [op |-> "getFeeds", faults |-> faults,
              out |-> getFeeds(kv, faults), dl |-> NoCall]
  /\ UNCHANGED <<kv, day, pass, stores, procs, reported, seen>>

NextRegistry ==
  \/ \E faults \in RegistryFaults : GetFeeds(faults)
  \/ /\ last.op = "init"
     /\ \E url \in RegistrySources, resp \in RegistryResponses,
           faults \in RegistryFaults : AddFeed(url, resp, faults)

SpecRegistry == InitRegistry /\ [][NextRegistry]_vars

\* ------------------------------------------------- keyword statistics
\* A URL handed to extractKeywordsWithCount: what new URL(url) makes of it,
\* or NotAUrl when the constructor throws. Paths are sequences of characters.
NotAUrl == [host |-> "", pathname |-> <<>>]

Digits == {"0", "1", "2", "3", "4", "5", "6", "7", "8", "9"}
UpperCase ==
  <<"A", "B", "C", "D", "E", "F", "G", "H", "I", "J", "K", "L", "M",
    "N", "O", "P", "Q", "R", "S", "T", "U", "V", "W", "X", "Y", "Z">>
LowerCase ==
  <<"a", "b", "c", "d", "e", "f", "g", "h", "i", "j", "k", "l", "m",
    "n", "o", "p", "q", "r", "s", "t", "u", "v", "w", "x", "y", "z">>

\* String.prototype.toLowerCase
lowerCase(str) ==
  [i \in 1..Len(str) |->
     IF \E n \in DOMAIN UpperCase : UpperCase[n] = str[i]
     THEN LowerCase[CHOOSE n \in DOMAIN UpperCase : UpperCase[n] = str[i]]
     ELSE str[i]]

\* path.split('/')
RECURSIVE split(_)
split(path) ==
  IF \A i \in 1..Len(path) : path[i] # "/"
  THEN <<path>>
  ELSE LET i == CHOOSE i \in 1..Len(path) :
                  path[i] = "/" /\ \A j \in 1..(i - 1) : path[j] # "/"
       IN <<SubSeq(path, 1, i - 1)>> \o split(SubSeq(path, i + 1, Len(path)))

\* segment.match(/^\d+$/)
isNumeric(segment) ==
  Len(segment) > 0 /\ \A i \in 1..Len(segment) : segment[i] \in Digits

\* segment.match(/^(index|page|post|article|news|blog)$/i)
StopWords ==
  {<<"i", "n", "d", "e", "x">>, <<"p", "a", "g", "e">>, <<"p", "o", "s", "t">>,
   <<"a", "r", "t", "i", "c", "l", "e">>, <<"n", "e", "w", "s">>,
   <<"b", "l", "o", "g">>}
isStopWord(segment) == lowerCase(segment) \in StopWords

\* the filter of the inner loop
keepSegment_NumericKept(segment) ==
  /\ Len(segment) > 2
  /\ ~includes(segment, ".")
  /\ ~isStopWord(segment)

keepSegment(segment) ==
  /\ Len(segment) > 2
  /\ ~isNumeric(segment)
  /\ ~includes(segment, ".")
  /\ ~isStopWord(segment)

\* segment.replace(/-/g, '').toLowerCase()
cleanSegment(segment) ==
  lowerCase(SelectSeq(segment, LAMBDA c : c # "-"))

\* keywordCounts.set(k, (keywordCounts.get(k) || 0) + 1): the map keeps its
\* keys in the order of their first insertion
increment(keywordCounts, keyword) ==
  IF \E i \in DOMAIN keywordCounts : keywordCounts[i].keyword = keyword
  THEN [i \in DOMAIN keywordCounts |->
          IF keywordCounts[i].keyword = keyword
          THEN [keywordCounts[i] EXCEPT !.count = @ + 1]
          ELSE keywordCounts[i]]
  ELSE Append(keywordCounts, [keyword |-> keyword, count |-> 1])

\* the inner loop over the segments of one path
RECURSIVE countSegments(_, _)
countSegments(keywordCounts, segments) ==
  IF segments = <<>> THEN keywordCounts
  ELSE LET segment == Head(segments)
           counted == IF keepSegment(segment)
                         /\ Len(cleanSegment(segment)) > 2
                      THEN increment(keywordCounts, cleanSegment(segment))
                      ELSE keywordCounts
       IN countSegments(counted, Tail(segments))

\* the outer loop: a URL that does not parse is skipped
RECURSIVE countUrls(_, _)
countUrls(keywordCounts, urls) ==
  IF urls = <<>> THEN keywordCounts
  ELSE LET url == Head(urls)
           counted ==
             IF url = NotAUrl THEN keywordCounts
             ELSE countSegments(keywordCounts,
                    SelectSeq(split(url.pathname), LAMBDA g : Len(g) > 2))
       IN countUrls(counted, Tail(urls))

\* mutant of sortByCount: ascending
sortByCount_Ascending(entries) ==
  LET before(i) == {j \in DOMAIN entries :
                      \/ entries[j].count < entries[i].count
                      \/ entries[j].count = entries[i].count /\ j < i}
  IN [r \in DOMAIN entries |->
        entries[CHOOSE i \in DOMAIN entries : Cardinality(before(i)) = r - 1]]

\* Array.prototype.sort((a, b) => b.count - a.count): stable
sortByCount(entries) ==
  LET before(i) == {j \in DOMAIN entries :
                      \/ entries[j].count > entries[i].count
                      \/ entries[j].count = entries[i].count /\ j < i}
  IN [r \in DOMAIN entries |->
        entries[CHOOSE i \in DOMAIN entries : Cardinality(before(i)) = r - 1]]

TopKeywords == 10

slice(entries, n) ==
  SubSeq(entries, 1, IF Len(entries) < n THEN Len(entries) ELSE n)

extractKeywordsWithCount(urls) ==
  slice(sortByCount(countUrls(<<>>, urls)), TopKeywords)

\* SpecKeywords: extractKeywordsWithCount applied to every list of at most
\* MaxLen URLs whose paths have one or two segments: short once its hyphen is
\* stripped, numeric, a date, hyphenated in mixed case, its plain form, a stop
\* word, a file name; or the eleven segments of LongPath; or that do not parse.
KeywordSegments ==
  {<<"a", "-", "i">>,
   <<"2", "0", "2", "4">>,
   <<"2", "4", "-", "0", "1">>,
   <<"T", "e", "c", "h", "-", "A", "I">>,
   <<"t", "e", "c", "h", "a", "i">>,
   <<"N", "e", "w", "s">>,
   <<"a", ".", "x", "m", "l">>}

\* the segments that come second in a path
SecondSegments ==
  {<<"2", "0", "2", "4">>,
   <<"2", "4", "-", "0", "1">>,
   <<"T", "e", "c", "h", "-", "A", "I">>,
   <<"t", "e", "c", "h", "a", "i">>}

KeywordPaths ==
  {<<"/">> \o a \o <<"/">> : a \in KeywordSegments}
    \cup {<<"/">> \o a \o <<"/">> \o b : a \in KeywordSegments,
                                        b \in SecondSegments}

RECURSIVE join(_)
join(segments) ==
  IF segments = <<>> THEN <<>>
  ELSE <<"/">> \o Head(segments) \o join(Tail(segments))

LongPath ==
  join([i \in 1..(TopKeywords + 1) |-> <<"k", "w", LowerCase[i]>>])

KeywordUrls ==
  {NotAUrl}
    \cup {[host |-> "a.com", pathname |-> p] : p \in KeywordPaths \cup {LongPath}}

InitKeywords ==
  /\ kv = [k \in Keys |-> Null]
  /\ day = 1
  /\ pass = Idle
  /\ stores = NoStores
  /\ procs = EmptyBag
  /\ reported = {}
  /\ seen = NoneSeen
  /\ \E urls \in UNION {[1..n -> KeywordUrls] : n \in 0..MaxLen} :
       last = [op |-> "urls", urls |-> urls, dl |-> NoCall]

Keywords ==
  /\ last.op = "urls"
  /\ last' = [op |-> "extractKeywordsWithCount", urls |-> last.urls,
              out |-> extractKeywordsWithCount(last.urls), dl |-> NoCall]
  /\ UNCHANGED <<kv, day, pass, stores, procs, reported, seen>>

SpecKeywords == InitKeywords /\ [][Keywords]_vars

\* ================================================================ claims
\* The call of downloadSitemap made by the step just taken, and its domain
DidCall == last'.dl # NoCall /\ ValidURL(last'.dl.url)
CallDomain == hostname(last'.dl.url)

\* no slot of the call's domain differs after the step
SlotsUnchanged == \A k \in DomainKeys(CallDomain) : kv'[k] = kv[k]

\* the step is a non-forced call on a domain whose marker was today's day
ThrottledCall ==
  /\ DidCall
  /\ ~last'.dl.force
  /\ kv[lastUpdateKey(CallDomain)] = <<day>>

\* the step is a call that fetched, saved and returned success
FetchedCall ==
  /\ DidCall
  /\ last'.dl.branch = "fetch"
  /\ last'.dl.out.success

\* ---------------------------------------------------------------- C1
\* C1 as claimed: after a successful fetch on a domain whose current slot held
\* any body C0, the empty body included, latest = C0, current = the fetched
\* body and dated:<today> = the fetched body.
C1_Rotation ==
  [][(FetchedCall /\ kv[currentKey(CallDomain)] # Null)
       => /\ kv'[latestKey(CallDomain)] = kv[currentKey(CallDomain)]
          /\ kv'[currentKey(CallDomain)] = <<last'.dl.text>>
          /\ kv'[datedKey(CallDomain, day)] = <<last'.dl.text>>]_vars

\* ---------------------------------------------------------------- C2
\* C2: a non-forced call on a domain whose marker is today's day writes no key
\* and leaves current, latest, every dated slot and the marker of the domain
\* as they were.
C2_ThrottleWritesNothing ==
  [][ThrottledCall => (SlotsUnchanged /\ last'.dl.writes = <<>>)]_vars

C2_Witness ==
  /\ last.dl # NoCall
  /\ last.dl.branch = "throttle"
  /\ ~last.dl.force
  /\ last.dl.out.success
  /\ kv[lastUpdateKey(hostname(last.dl.url))] = <<day>>
  /\ kv[latestKey(hostname(last.dl.url))] # Null

\* ---------------------------------------------------------------- C3
\* C3: a non-forced call on a domain whose marker is today's day issues no
\* network fetch.
C3_ThrottleNoFetch ==
  [][ThrottledCall => ~last'.dl.fetched]_vars

C3_Witness ==
  /\ last.dl # NoCall
  /\ last.dl.branch = "throttle"
  /\ ~last.dl.force
  /\ ~last.dl.fetched
  /\ day = 2
  /\ kv[lastUpdateKey(hostname(last.dl.url))] = <<2>>

\* ---------------------------------------------------------------- C4
BothExist ==
  /\ kv[currentKey(CallDomain)] # Null
  /\ kv[latestKey(CallDomain)] # Null

StoredDiff ==
  compareSitemaps(kv[currentKey(CallDomain)][1], kv[latestKey(CallDomain)][1])

\* C4 as amended: a non-forced call on a domain already updated today returns
\* success, no archived key, newUrls = diff(current, latest) when both slots
\* exist, and an empty newUrls when one of them is missing.
C4_ThrottleResult ==
  [][ThrottledCall
       => /\ last'.dl.out.success
          /\ last'.dl.out.datedFile = Null
          /\ BothExist => last'.dl.out.newUrls = StoredDiff
          /\ ~BothExist => last'.dl.out.newUrls = <<>>]_vars

C4_Witness ==
  /\ last.dl # NoCall
  /\ last.dl.branch = "throttle"
  /\ last.dl.out.success
  /\ last.dl.out.newUrls # <<>>
  /\ kv[currentKey(hostname(last.dl.url))] # Null
  /\ kv[latestKey(hostname(last.dl.url))] # Null

\* C4 as claimed: the same, and newUrls is empty only when one of the two slots
\* is missing.
C4_Original ==
  [][ThrottledCall
       => /\ last'.dl.out.success
          /\ last'.dl.out.datedFile = Null
          /\ BothExist => last'.dl.out.newUrls = StoredDiff
          /\ last'.dl.out.newUrls = <<>> => ~BothExist]_vars

\* ---------------------------------------------------------------- C5
FetchErrors ==
  {"fetch failed", "HTTP 404: Not Found",
   "Response body is null, cannot decompress."}

\* C5: when the HTTP fetch fails (network error, non-2xx status, missing gzip
\* body) the call returns success = false, archived key null and no new URL,
\* and no slot of the domain is changed.
C5_FetchFailure ==
  [][(DidCall /\ last'.dl.exc \in FetchErrors)
       => /\ ~last'.dl.out.success
          /\ last'.dl.out.datedFile = Null
          /\ last'.dl.out.newUrls = <<>>
          /\ SlotsUnchanged]_vars

C5_Witness ==
  /\ last.dl # NoCall
  /\ last.dl.exc \in FetchErrors
  /\ last.dl.fetched
  /\ ~last.dl.out.success
  /\ kv[currentKey(hostname(last.dl.url))] # Null

\* ---------------------------------------------------------------- C6
\* C6 as claimed: after any call, one with a failing put included, the slots of
\* the domain are either all as before or current, dated:<today> and the
\* marker all carry the attempt.
C6_AllOrNothing ==
  [][DidCall
       => \/ SlotsUnchanged
          \/ /\ kv'[currentKey(CallDomain)] = <<last'.dl.text>>
             /\ kv'[datedKey(CallDomain, day)] = <<last'.dl.text>>
             /\ kv'[lastUpdateKey(CallDomain)] = <<day>>]_vars

\* ---------------------------------------------------------------- C7
\* C7: every call of downloadSitemap returns a result; when an error was raised
\* inside it, the result is success = false with a non-empty message, archived
\* key null and no new URL.
C7_NeverThrows ==
  last.dl # NoCall
    => /\ last.dl.out # Unset
       /\ last.dl.exc # ""
            => /\ last.dl.out =
                    DownloadResult(FALSE, MsgDownloadFailed \o last.dl.exc,
                                   Null, <<>>)
               /\ last.dl.out.errorMsg # ""

C7_Witness ==
  /\ last.dl # NoCall
  /\ last.dl.exc = "KV put failed"
  /\ last.dl.writes # <<>>
  /\ ~last.dl.out.success

\* ---------------------------------------------------------------- C8
\* C8: a successful fetch on a domain with no current snapshot returns no new
\* URL, writes current and dated:<today> with the fetched body, sets the
\* marker to today and does not write latest.
C8_FirstObservation ==
  [][(FetchedCall /\ kv[currentKey(CallDomain)] = Null)
       => /\ last'.dl.out.newUrls = <<>>
          /\ kv'[currentKey(CallDomain)] = <<last'.dl.text>>
          /\ kv'[datedKey(CallDomain, day)] = <<last'.dl.text>>
          /\ kv'[lastUpdateKey(CallDomain)] = <<day>>
          /\ ~includes(last'.dl.writes, latestKey(CallDomain))
          /\ kv'[latestKey(CallDomain)] = kv[latestKey(CallDomain)]]_vars

C8_Witness ==
  /\ last.dl # NoCall
  /\ last.dl.branch = "fetch"
  /\ last.dl.out.success
  /\ last.dl.text = Body2
  /\ last.dl.writes =
       <<currentKey("a.com"), datedKey("a.com", day), lastUpdateKey("a.com")>>
  /\ kv[latestKey("a.com")] = Null

\* ---------------------------------------------------------------- C9
\* C9 as claimed: a forced call always takes the fetch branch and on success
\* returns diff(fetched body, body that was in current before the call).
C9_ForcedBypass ==
  [][(DidCall /\ last'.dl.force)
       => /\ last'.dl.branch = "fetch"
          /\ last'.dl.fetched
          /\ (last'.dl.out.success /\ kv[currentKey(CallDomain)] # Null)
               => last'.dl.out.newUrls =
                    compareSitemaps(last'.dl.text, kv[currentKey(CallDomain)][1])]_vars

\* ---------------------------------------------------------------- C10
\* C10: on a day on which no forced attempt fetched for a domain, at most one
\* attempt fetches, stores and returns success for that domain.
C10_OncePerDay ==
  \A d \in Domains : ~stores[d].forced => stores[d].n <= 1

C10_Witness ==
  /\ day = 2
  /\ stores["a.com"] = [n |-> 1, forced |-> FALSE]
  /\ last.dl # NoCall
  /\ last.dl.branch = "throttle"
  /\ last.op = "scheduledStep"

Registry(store) == getFeeds(store, {})

\* C12: an addFeed of a source that is not in the registry whose attempt
\* returned success = false writes nothing to the registry, leaves it as it
\* was, and returns the outcome of the attempt itself.
C12_FailedAddKeepsRegistry ==
  [][(/\ last'.op = "addFeed"
      /\ ~includes(Registry(kv), last'.url)
      /\ ~last'.dl.out.success)
       => /\ kv'[feedsKey] = kv[feedsKey]
          /\ ~last'.wrote
          /\ last'.out = last'.dl.out]_vars

C12_Witness ==
  /\ last.op = "addFeed"
  /\ last.url = SrcA2
  /\ last.dl.fetched
  /\ ~last.out.success
  /\ last.out.errorMsg = MsgDownloadFailed \o "HTTP 404: Not Found"
  /\ Registry(kv) = <<SrcA>>

\* ---------------------------------------------------------------- C13
\* C13: removeFeed of a source that is not in the registry returns
\* success = false with the "not found" message and carries out no write; of a
\* source that is in the registry it persists the list with exactly that
\* source taken out, the other sources in their order, and touches no other key.
C13_RemoveFeed ==
  [][last'.op = "removeFeed"
       => IF ~includes(Registry(kv), last'.url)
          THEN /\ last'.out = RemoveFeedResult(FALSE, MsgNotFound)
               /\ ~last'.wrote
               /\ kv' = kv
          ELSE /\ last'.out = RemoveFeedResult(TRUE, "")
               /\ last'.wrote
               /\ Registry(kv') =
                    SelectSeq(Registry(kv), LAMBDA x : x # last'.url)
               /\ \A k \in Keys \ {feedsKey} : kv'[k] = kv[k]]_vars

C13_Witness ==
  /\ last.op = "removeFeed"
  /\ last.url = SrcA
  /\ last.wrote
  /\ last.out.success
  /\ Registry(kv) = <<SrcA2>>

\* ---------------------------------------------------------------- C14
ElemsOf(seq) == {seq[i] : i \in 1..Len(seq)}
NoDup(seq) == Cardinality(ElemsOf(seq)) = Len(seq)
ByAddFeed == last'.kind \in {"addFeed", "scheduled"}

\* C14: whatever the interleaving of addFeed, removeFeed and the passes, the
\* persisted registry never holds a source twice; an addFeed that read a
\* registry holding its source makes its attempt and returns without writing
\* the registry, and a registry write of addFeed is always for a source its
\* invocation did not read.
C14_RegistryUnique ==
  [][/\ NoDup(Registry(kv'))
     /\ (last'.op = "downloadSitemap" /\ ByAddFeed
           /\ last'.url \in ElemsOf(last'.feeds))
          => /\ last'.dl.url = last'.url
             /\ kv'[feedsKey] = kv[feedsKey]
             /\ \A proc \in BagToSet(procs') :
                  proc.pc = "put"
                    => CopiesIn(proc, procs') <= CopiesIn(proc, procs)
     /\ (last'.op = "putFeeds" /\ ByAddFeed)
          => last'.url \notin ElemsOf(last'.feeds)]_vars

C14_Witness ==
  /\ Registry(kv) = <<SrcA2, SrcA>>
  /\ last.op = "downloadSitemap"
  /\ last.kind = "addFeed"
  /\ last.url \in ElemsOf(last.feeds)
  /\ last.dl.out.success
  /\ \E proc \in BagToSet(procs) : proc.pc = "splice"

\* ---------------------------------------------------------------- C15
\* a step that ran addFeed and returned success
AddFeedSucceeded ==
  last'.op \in {"addFeed", "scheduledStep"} /\ last'.out.success

\* C15 as claimed: a successful addFeed returns the outcome of its attempt
\* with the message "added" for a source that was not in the registry and
\* "existing feed updated" for one that was, whichever branch the attempt took.
C15_Original ==
  [][AddFeedSucceeded
       => last'.out =
            [last'.dl.out EXCEPT
               !.errorMsg = IF last'.url \in ElemsOf(Registry(kv))
                            THEN MsgExisting ELSE MsgAdded]]_vars

\* C15 as amended: for a source that was not in the registry the message is
\* "added" when the attempt took the fetch branch and the throttle message of
\* the attempt itself when it took the throttle branch; for a source that was
\* in the registry it is "existing feed updated" on both branches.
C15_AddFeedMessage ==
  [][AddFeedSucceeded
       => last'.out =
            [last'.dl.out EXCEPT
               !.errorMsg = IF last'.url \in ElemsOf(Registry(kv))
                            THEN MsgExisting
                            ELSE IF last'.dl.branch = "fetch" THEN MsgAdded
                            ELSE last'.dl.out.errorMsg]]_vars

C15_Witness ==
  /\ last.op = "addFeed"
  /\ last.wrote
  /\ last.dl.branch = "throttle"
  /\ last.out.success
  /\ last.out.errorMsg = MsgNotSent
  /\ Len(Registry(kv)) = 2

\* ---------------------------------------------------------------- C16
\* the positions of extract(A) whose URL does not occur in extract(B), and the
\* k-th of them in increasing order
KeptPositions(a, b) ==
  {i \in 1..Len(extractURLs(a)) :
     \A j \in 1..Len(extractURLs(b)) : extractURLs(b)[j] # extractURLs(a)[i]}

Kth(S, k) == CHOOSE i \in S : Cardinality({j \in S : j < i}) = k - 1

\* C16: compareSitemaps(A, B) is the subsequence of extract(A) made of the
\* elements that do not occur in extract(B): as many elements as there are such
\* positions, each position's URL in the order of the positions, repeats kept.
C16_DiffIsFilter ==
  last.op = "compareSitemaps"
    => LET kept == KeptPositions(last.a, last.b)
       IN /\ Len(last.out) = Cardinality(kept)
          /\ \A k \in 1..Len(last.out) :
               last.out[k] = extractURLs(last.a)[Kth(kept, k)]

C16_Witness ==
  /\ last.op = "compareSitemaps"
  /\ extractURLs(last.a) = <<U2, U2>>
  /\ extractURLs(last.b) = <<U1>>
  /\ last.out = <<U2, U2>>

\* ---------------------------------------------------------------- C17
\* C17: compareSitemaps(A, A) is empty, and compareSitemaps(A, "") is
\* extract(A).
C17_DiffIdentities ==
  last.op = "compareSitemaps"
    => /\ last.a = last.b => last.out = <<>>
       /\ last.b = EmptyBody => last.out = extractURLs(last.a)

C17_Witness ==
  /\ last.op = "compareSitemaps"
  /\ last.b = EmptyBody
  /\ Len(last.a) = MaxLen
  /\ Len(last.out) = MaxLen

\* ---------------------------------------------------------------- C18
UrlsOf(attempts) == [k \in 1..Len(attempts) |-> attempts[k].url]

C18_Step ==
  /\ (pass = Idle /\ pass' # Idle)
       => /\ pass'.feeds = Registry(kv)
          /\ pass'.i = 1
          /\ pass'.attempts = <<>>
  /\ (pass # Idle /\ pass' # Idle /\ pass' # pass)
       => /\ pass.i <= Len(pass.feeds)
          /\ last'.dl # NoCall
          /\ last'.dl.url = pass.feeds[pass.i]
          /\ pass'.feeds = pass.feeds
          /\ pass'.i = pass.i + 1
          /\ Len(pass'.attempts) = Len(pass.attempts) + 1
          /\ UrlsOf(pass'.attempts) = Append(UrlsOf(pass.attempts), last'.dl.url)
  /\ (pass # Idle /\ pass' = Idle) => UrlsOf(pass.attempts) = pass.feeds

\* C18: a pass over the registry [s1..sn] calls the attempt for s1, then s2,
\* ... then sn, each once, whatever the earlier attempts returned, and then
\* ends: every pass that has started terminates.
C18_PassVisitsAll == [][C18_Step]_vars /\ (pass # Idle ~> pass = Idle)

C18_Witness ==
  /\ last.op = "sendUnifiedReport"
  /\ Len(last.attempts) = 2
  /\ ~last.attempts[1].success
  /\ last.attempts[2].success

\* ---------------------------------------------------------------- C19
Failed(attempts) == {k \in 1..Len(attempts) : ~attempts[k].success}

\* C19: in the report of every pass, scheduled or on-demand, processedCount is
\* the number of attempts made and errorCount is the number of them that came
\* back with success = false.
C19_Counts ==
  last.op = "sendUnifiedReport"
    => /\ last.processedCount = Len(last.attempts)
       /\ last.errorCount = Cardinality(Failed(last.attempts))

C20_Step ==
  /\ last'.op = "passStart" => (pass' # Idle <=> Len(Registry(kv)) > 0)
  /\ (pass # Idle /\ pass' = Idle)
       => /\ last'.op = "sendUnifiedReport"
          /\ last'.domainResults = pass.domainResults
          /\ last'.allNewUrls = pass.allNewUrls
          /\ last'.processedCount = pass.processedCount
          /\ last'.errorCount = pass.errorCount

C21_BypassByTrigger ==
  [][/\ (last'.op \in {"newsStep", "discordNewsStep"} /\ DidCall)
          => last'.dl.fetched
     /\ (last'.op = "scheduledStep" /\ ThrottledCall) => ~last'.dl.fetched]_vars

\* ---------------------------------------------------------------- C22
\* C22: the report of a scheduled pass is sent to the notifier exactly when
\* the pass found at least one new URL; a pass that found none sends nothing.
C22_SilentMode ==
  (last.op = "sendUnifiedReport" /\ last.kind = "scheduled")
    => (last.message.sent <=> last.allNewUrls # <<>>)

\* ---------------------------------------------------------------- C23
\* C23: a URL that a scheduled pass reported as new for a source, and that has
\* been in every document fetched for that source since, is not reported as
\* new for that source by a later scheduled pass.
C23_ReportedOnce ==
  [][(last'.op = "scheduledStep" /\ last'.out.success)
       => \A k \in 1..Len(last'.out.newUrls) :
            \/ <<last'.url, last'.out.newUrls[k]>> \notin reported
            \/ /\ last'.dl.branch = "fetch"
               /\ <<last'.url, last'.out.newUrls[k]>> \notin
                    (reported \cap reported')]_vars

\* ---------------------------------------------------------------- C24
\* The segments of the paths of the URLs, none for a URL that does not parse.
RECURSIVE Paths(_)
Paths(urls) ==
  IF urls = <<>> THEN <<>>
  ELSE <<IF Head(urls) = NotAUrl THEN <<>> ELSE split(Head(urls).pathname)>>
         \o Paths(Tail(urls))

\* The occurrences of path segments: <<u, i>> is the i-th segment of the path
\* of the u-th URL.
Occurrences(paths) ==
  UNION {{<<u, i>> : i \in DOMAIN paths[u]} : u \in DOMAIN paths}
SegmentAt(paths, o) == paths[o[1]][o[2]]
Stripped(segment) == lowerCase(SelectSeq(segment, LAMBDA c : c # "-"))
Counted(segment) ==
  /\ Len(segment) > 2 /\ Len(Stripped(segment)) > 2
  /\ \E i \in DOMAIN segment : segment[i] \notin Digits
  /\ \A i \in DOMAIN segment : segment[i] # "."
  /\ lowerCase(segment) \notin StopWords
AllDigits(keyword) == \A i \in DOMAIN keyword : keyword[i] \in Digits

C25_GetFeeds ==
  [][last'.op = "getFeeds"
       => \/ /\ last'.faults = {}
             /\ kv[feedsKey] # Null
             /\ \E l \in RegistryLists :
                  kv[feedsKey] = <<JSON_stringify(l)>> /\ last'.out = l
          \/ /\ \/ last'.faults # {}
                \/ kv[feedsKey] = Null
                \/ \A l \in RegistryLists : kv[feedsKey] # <<JSON_stringify(l)>>
             /\ last'.out = <<>>]_vars

\* getFeeds has returned [] from a text cut short, and from a failed read of
\* a registry holding a source
C25_Witness ==
  /\ last.op = "getFeeds"
  /\ last.out = <<>>
  /\ \/ last.faults = {} /\ kv[feedsKey] = <<(<<"[", SrcA>>)>>
     \/ last.faults # {} /\ kv[feedsKey] = <<JSON_stringify(<<SrcA>>)>>

\* ---------------------------------------------------------------- C26
\* C26: while no forced attempt has stored a document for the domain, the
\* interleaved invocations of downloadSitemap store at most one document for
\* it on the day.
C26_OneStorePerDay ==
  ~stores[RaceDomain].forced => stores[RaceDomain].n < 2

\* ---------------------------------------------------------------- C27
\* C27: an invocation that no other invocation interleaves with, between its
\* read of `current` and its overwrite of it, leaves in `latest` the body that
\* `current` held immediately before the overwrite; interleaved invocations
\* reach a state where `latest` is another body (C27_Witness).
C27_PromotionUnguarded ==
  [][(last'.op = "putCurrent" /\ last'.alone /\ Truthy(last'.overwritten))
       => kv'[latestKey(RaceDomain)] = last'.overwritten]_vars

\* `current` has just been overwritten, and `latest` is not the body it held
C27_Witness ==
  /\ last.op = "putCurrent"
  /\ ~last.alone
  /\ Truthy(last.overwritten)
  /\ Truthy(kv[latestKey(RaceDomain)])
  /\ kv[latestKey(RaceDomain)] # last.overwritten

\* ---------------------------------------------------------------- C28
\* C28: no step of a scheduled pass changes the persisted registry, whatever
\* addFeed and removeFeed invocations are interleaved with it.
C28_PassKeepsRegistry ==
  [][last'.kind = "scheduled" => Registry(kv') = Registry(kv)]_vars

\* ---------------------------------------------------------------- C29
\* C29: every registry write of addFeed(s) leaves the persisted registry with
\* the sources it held plus s, and every registry write of removeFeed(s) leaves
\* it with the sources it held minus s, whatever was written since the
\* invocation read the registry.
C29_NoLostUpdate ==
  [][/\ (last'.op = "putFeeds" /\ last'.kind = "addFeed")
          => ElemsOf(Registry(kv')) = ElemsOf(Registry(kv)) \cup {last'.url}
     /\ (last'.op = "putFeeds" /\ last'.kind = "removeFeed")
          => ElemsOf(Registry(kv')) = ElemsOf(Registry(kv)) \ {last'.url}]_vars

\* ---------------------------------------------------------------- C30
\* a is b with some of its elements left out, the others in their order
RECURSIVE IsSubsequence(_, _)
IsSubsequence(a, b) ==
  IF a = <<>> THEN TRUE
  ELSE IF b = <<>> THEN FALSE
  ELSE IF Head(a) = Head(b) THEN IsSubsequence(Tail(a), Tail(b))
  ELSE IsSubsequence(a, Tail(b))

\* C30: after any addFeed, the sources the persisted registry held before the
\* call are still in it, in the same relative order, the read of the registry
\* failing or not.
C30_AddFeedKeepsOthers ==
  [][last'.op = "addFeed" => IsSubsequence(Registry(kv), Registry(kv'))]_vars

\* ---------------------------------------------------------------- C31
\* C31: a removeFeed that returns success makes no call of downloadSitemap and
\* no fetch, changes no key but the registry, so that every slot and marker is
\* as it was, and leaves in the registry the other sources, in the order they
\* had.
C31_RemoveFeedFrame ==
  [][(last'.op = "removeFeed" /\ last'.out.success)
       => /\ last'.dl = NoCall
          /\ stores' = stores
          /\ \A d \in Domains : \A k \in DomainKeys(d) : kv'[k] = kv[k]
          /\ last'.url \notin ElemsOf(Registry(kv'))
          /\ ElemsOf(Registry(kv')) = ElemsOf(Registry(kv)) \ {last'.url}
          /\ IsSubsequence(Registry(kv'), Registry(kv))]_vars

\* a source is removed on the day its domain was fetched; the other source of
\* the domain stays, and so do the slots
C31_Witness ==
  /\ last.op = "removeFeed"
  /\ last.out.success
  /\ last.url = SrcA2
  /\ Registry(kv) = <<SrcA>>
  /\ kv[lastUpdateKey("a.com")] = <<day>>
  /\ kv[currentKey("a.com")] # Null

\* ---------------------------------------------------------------- C32
\* the new URLs a pass holds for a domain, and the sum of its totalNew
NewUrlsOf(p, d) ==
  IF has(p.domainResults, d)
  THEN p.domainResults[CHOOSE i \in 1..Len(p.domainResults) :
                         p.domainResults[i].domain = d].newUrls
  ELSE <<>>

RECURSIVE SumTotalNew(_)
SumTotalNew(domainResults) ==
  IF domainResults = <<>> THEN 0
  ELSE Head(domainResults).totalNew + SumTotalNew(Tail(domainResults))

\* what the attempt of the step just taken contributes
Contribution ==
  IF last'.out # Unset /\ last'.out.success THEN last'.out.newUrls ELSE <<>>

\* C32: a pass starts with nothing aggregated; every attempt appends its
\* newUrls to allNewUrls and to the list of its source's domain when it
\* succeeded and nothing when it failed, the lists of the other domains staying
\* as they were; at every point totalNew of a domain is the length of its list,
\* a domain has one entry, and the totals add up to the length of allNewUrls.
C32_Aggregation ==
  [][/\ (pass = Idle /\ pass' # Idle)
          => pass'.allNewUrls = <<>> /\ pass'.domainResults = <<>>
     /\ (last'.op \in {"scheduledStep", "newsStep"})
          => /\ pass'.allNewUrls = pass.allNewUrls \o Contribution
             /\ \A d \in Domains :
                  NewUrlsOf(pass', d) =
                    NewUrlsOf(pass, d)
                      \o (IF d = hostname(last'.url) THEN Contribution ELSE <<>>)
     /\ pass' # Idle
          => /\ \A i \in 1..Len(pass'.domainResults) :
                  /\ pass'.domainResults[i].totalNew =
                       Len(pass'.domainResults[i].newUrls)
                  /\ \A j \in 1..Len(pass'.domainResults) :
                       pass'.domainResults[j].domain
                         = pass'.domainResults[i].domain => j = i
             /\ SumTotalNew(pass'.domainResults) = Len(pass'.allNewUrls)]_vars

\* a failed attempt, then one that brought several new URLs
C32_Witness ==
  /\ pass # Idle
  /\ Len(pass.attempts) = 2
  /\ ~pass.attempts[1].success
  /\ pass.attempts[2].success
  /\ Len(pass.allNewUrls) >= 2
  /\ last.op \in {"scheduledStep", "newsStep"}

\* ---------------------------------------------------------------- C33
\* C33: a pass has at most one attempt called and not returned, and the attempt
\* for the source at position i is called only when no attempt is outstanding
\* and the attempts for the i - 1 sources before it have returned.
C33_SequentialPass ==
  [][/\ BagCardinality(procs') <= 1
     /\ last'.op = "call"
          => /\ procs = EmptyBag
             /\ Len(pass.attempts) = last'.i - 1
             /\ \A k \in 1..Len(pass.attempts) : pass.attempts[k].returned]_vars

\* the second source is called after the attempt for the first has returned
C33_Witness ==
  /\ last.op = "call"
  /\ last.i = 2
  /\ procs = SetToBag({Outstanding(2)})
  /\ Len(pass.attempts) = 1

\* ---------------------------------------------------------------- C34
\* a marker that is set comes with current and with the dated slot of its day
MarkerCovered(store) ==
  \A d \in Domains :
    store[lastUpdateKey(d)] # Null
      => /\ store[currentKey(d)] # Null
         /\ store[datedKey(d, store[lastUpdateKey(d)][1])] # Null

\* C34: in every state a marker equal to day d comes with a current slot and
\* a dated:<d> slot; in a sequential execution the marker changes only in a
\* call that fetched and returned success, which leaves it at the day of
\* the call, and current holds what dated:<marker> holds.
C34_MarkerLast ==
  [][/\ MarkerCovered(kv')
     /\ \A d \in Domains :
          /\ kv'[lastUpdateKey(d)] # Null
               => kv'[currentKey(d)] = kv'[datedKey(d, kv'[lastUpdateKey(d)][1])]
          /\ kv'[lastUpdateKey(d)] # kv[lastUpdateKey(d)]
               => FetchedCall /\ CallDomain = d
     /\ FetchedCall => kv'[lastUpdateKey(CallDomain)] = <<day>>]_vars

\* the first half of C34 alone, between the writes of interleaved attempts
C34_Covered == MarkerCovered(kv)

\* ---------------------------------------------------------------- C35
\* C35: the outcome of every call of downloadSitemap with success = false has
\* a null archived key and no new URL; the archived key is not null exactly
\* when the call took the fetch branch, fetched, wrote current, dated:<today>
\* and the marker and returned success, and it is then the dated key of the
\* call's domain for the day of the call, which holds the fetched document.
C35_OutcomeWellFormed ==
  [][DidCall
       => /\ last'.dl.out # Unset
          /\ ~last'.dl.out.success
               => last'.dl.out.datedFile = Null /\ last'.dl.out.newUrls = <<>>
          /\ last'.dl.out.datedFile # Null
               <=> /\ last'.dl.branch = "fetch"
                   /\ last'.dl.fetched
                   /\ last'.dl.out.success
                   /\ {currentKey(CallDomain), datedKey(CallDomain, day),
                       lastUpdateKey(CallDomain)}
                        \subseteq ElemsOf(last'.dl.writes)
          /\ last'.dl.out.datedFile # Null
               => /\ last'.dl.out.datedFile = <<datedKey(CallDomain, day)>>
                  /\ kv'[datedKey(CallDomain, day)] = <<last'.dl.text>>]_vars

\* a fetch of the second day is archived under the dated key of that day
C35_Witness ==
  /\ last.dl # NoCall
  /\ day = 2
  /\ last.dl.out.success
  /\ last.dl.out.datedFile = <<datedKey("a.com", 2)>>
  /\ last.dl.out.newUrls # <<>>

\* ---------------------------------------------------------------- C36
\* what a throttled call on the domain returns from a store: lines 73-91
Replayed(store, d) ==
  IF Truthy(store[currentKey(d)]) /\ Truthy(store[latestKey(d)])
  THEN compareSitemaps(store[currentKey(d)][1], store[latestKey(d)][1])
  ELSE <<>>

\* C36: in a sequential execution a throttled call on a domain returns the
\* newUrls of the most recent successful fetch of the domain: a successful
\* fetch leaves the slots such that a throttled call returns its newUrls, no
\* other step changes what a throttled call on the domain returns, and a
\* throttled call returns it.
C36_ThrottleReplays ==
  [][/\ FetchedCall => Replayed(kv', CallDomain) = last'.dl.out.newUrls
     /\ \A d \in Domains :
          ~(FetchedCall /\ CallDomain = d) => Replayed(kv', d) = Replayed(kv, d)
     /\ ThrottledCall
          => last'.dl.out.newUrls = Replayed(kv, CallDomain)]_vars

\* ---------------------------------------------------------------- C37
\* the URLs of a stored document, none when nothing was stored
UrlSet(doc) == IF doc = Null THEN {} ELSE ElemsOf(extractURLs(doc[1]))

\* C37: the newUrls of a successful attempt on a source are URLs of that
\* source's document, the one just fetched for it or, on the throttle branch,
\* the one last stored for it, and none of them is in the document stored for
\* that source before, whatever was stored for another source of the same host.
C37_SourceIsolation ==
  [][(last'.op = "addFeed" /\ DidCall /\ last'.dl.out.success)
       => \A k \in 1..Len(last'.dl.out.newUrls) :
            IF last'.dl.branch = "fetch"
            THEN /\ last'.dl.out.newUrls[k] \in UrlSet(<<last'.dl.text>>)
                 /\ last'.dl.out.newUrls[k] \notin UrlSet(seen[last'.url])
            ELSE last'.dl.out.newUrls[k] \in UrlSet(seen[last'.url])]_vars

\* ---------------------------------------------------------------- C38
\* the filter of the claim: longer than 2 characters, not purely numeric, no
\* '.', not a stop word
KeptAsClaimed(segment) ==
  /\ Len(segment) > 2
  /\ \E i \in DOMAIN segment : segment[i] \notin Digits
  /\ \A i \in DOMAIN segment : segment[i] # "."
  /\ lowerCase(segment) \notin StopWords

\* The stripped forms of the kept segments of the URLs that parse, in the
\* order of their occurrences.
RECURSIVE KeptForms(_, _)
KeptForms(Kept(_), urls) ==
  IF urls = <<>> THEN <<>>
  ELSE LET segments == IF Head(urls) = NotAUrl THEN <<>>
                       ELSE SelectSeq(split(Head(urls).pathname), Kept)
       IN [i \in DOMAIN segments |-> Stripped(segments[i])]
            \o KeptForms(Kept, Tail(urls))

\* out is what the rule gives for the forms counted: its entries are distinct
\* forms, each with the number of its occurrences; they are all the forms, or
\* 10 of them; they are by decreasing count, those of equal count by first
\* occurrence; and a form left out comes after the last entry in that order.
FollowsRule(forms, out) ==
  LET K == {forms[i] : i \in DOMAIN forms}
      n(k) == Cardinality({i \in DOMAIN forms : forms[i] = k})
      first(k) == CHOOSE i \in DOMAIN forms :
                    forms[i] = k /\ \A j \in 1..(i - 1) : forms[j] # k
      precedes(j, k) ==
        n(j) > n(k) \/ (n(j) = n(k) /\ first(j) < first(k))
      returned == {out[r].keyword : r \in DOMAIN out}
  IN /\ Len(out) = (IF Cardinality(K) < 10 THEN Cardinality(K) ELSE 10)
     /\ Cardinality(returned) = Len(out)
     /\ \A r \in DOMAIN out :
          out[r].keyword \in K /\ out[r].count = n(out[r].keyword)
     /\ \A r \in 1..(Len(out) - 1) :
          precedes(out[r].keyword, out[r + 1].keyword)
     /\ \A k \in K \ returned : precedes(out[Len(out)].keyword, k)

\* C38 as stated: the result is what the rule gives when every segment longer
\* than 2 characters, not purely numeric, without '.' and not a stop word is
\* counted, the URLs that do not parse being skipped.
C38_Rule ==
  last.op = "extractKeywordsWithCount"
    => \A forms \in {KeptForms(KeptAsClaimed, last.urls)} :
         FollowsRule(forms, last.out)

\* C38, amended: the result is what the rule gives when the segments counted
\* are those longer than 2 characters, not purely numeric, without '.', not a
\* stop word, and whose hyphen-stripped form is longer than 2 characters; no
\* other segment is counted, and the URLs that do not parse are skipped.
C38_RuleStrippedLength ==
  last.op = "extractKeywordsWithCount"
    => \A forms \in {KeptForms(Counted, last.urls)} :
         FollowsRule(forms, last.out)

\* twelve keywords, ten returned, the one counted twice first though it came
\* last
C38_Witness ==
  /\ last.op = "extractKeywordsWithCount"
  /\ Len(last.urls) = 2
  /\ last.urls[1].pathname = LongPath
  /\ Len(last.out) = 10
  /\ last.out[1].count = 2
  /\ last.out[2].keyword = <<"k", "w", "a">>

====
